---- MODULE Spec2Model ----
(***************************************************************************)
(* A model of the value-range lattice of gcc/tree-vrp.c and of the alias   *)
(* oracle and virtual-operand walkers of gcc/tree-ssa-alias.c.             *)
(*                                                                         *)
(* Trees are records: an INTEGER_CST carries its type and its value, a     *)
(* type carries its code, signedness, precision and TYPE_MIN/MAX_VALUE.    *)
(***************************************************************************)
EXTENDS Integers, Sequences, FiniteSets, TLC

(* Precision, in bits, of the integer and pointer types ranged over. *)
Prec == 3

(* ------------------------------------------------------------------ *)
(* Types and constants (tree.h, wide-int.h).                           *)
(* ------------------------------------------------------------------ *)

wi_min_value(prec, uns) == IF uns THEN 0 ELSE -(2^(prec - 1))

wi_max_value(prec, uns) == IF uns THEN 2^prec - 1 ELSE 2^(prec - 1) - 1

(* An INTEGER_TYPE; wrapv is -fwrapv, which TYPE_OVERFLOW_WRAPS reads
   for signed types. *)
integer_type(uns, prec, wrapv) ==
  [code |-> "INTEGER_TYPE", unsignedp |-> uns, precision |-> prec,
   min_value |-> wi_min_value(prec, uns),
   max_value |-> wi_max_value(prec, uns),
   overflow_wraps |-> (uns \/ wrapv)]

(* An unsigned ENUMERAL_TYPE under -fstrict-enums: TYPE_MAX_VALUE is
   below the extreme of the precision. *)
enumeral_type(prec) ==
  [code |-> "ENUMERAL_TYPE", unsignedp |-> TRUE, precision |-> prec,
   min_value |-> 0, max_value |-> 2^prec - 2, overflow_wraps |-> TRUE]

(* A POINTER_TYPE: unsigned, no TYPE_MIN/MAX_VALUE (the fields are never
   read for it); wrapv is -fwrapv-pointer. *)
pointer_type(prec, wrapv) ==
  [code |-> "POINTER_TYPE", unsignedp |-> TRUE, precision |-> prec,
   min_value |-> 0, max_value |-> 0, overflow_wraps |-> wrapv]

INTEGRAL_TYPE_P(type) == type.code \in {"INTEGER_TYPE", "ENUMERAL_TYPE", "BOOLEAN_TYPE"}

POINTER_TYPE_P(type) == type.code \in {"POINTER_TYPE", "REFERENCE_TYPE"}

NULL_TREE == [code |-> "NULL_TREE"]

(* wide_int_to_tree: the value V reduced to the precision of TYPE. *)
wide_int_to_tree(type, v) ==
  LET m == 2^type.precision
      r == v % m
  IN  [code |-> "INTEGER_CST", type |-> type,
       val |-> IF type.unsignedp \/ r < m \div 2 THEN r ELSE r - m]

build_int_cst(type, v) == wide_int_to_tree(type, v)

TREE_TYPE(t) == t.type

(* tree_int_cst_lt with <= for <. *)
tree_int_cst_le(t1, t2) == t1.val <= t2.val

tree_int_cst_lt(t1, t2) == t1.val < t2.val

tree_int_cst_compare(t1, t2) ==
  IF t1.val < t2.val THEN -1 ELSE IF t1.val > t2.val THEN 1 ELSE 0

(* int_const_binop on two INTEGER_CSTs of one type, PLUS_EXPR and
   MINUS_EXPR only: the result wraps to the type's precision. *)
int_const_binop(code, t1, t2) ==
  wide_int_to_tree(TREE_TYPE(t1),
                   IF code = "PLUS_EXPR" THEN t1.val + t2.val ELSE t1.val - t2.val)

(* operand_equal_p (a, b, 0) on constants. *)
operand_equal_p(t1, t2) ==
  \/ (t1.code = "INTEGER_CST" /\ t2.code = "INTEGER_CST" /\ t1.val = t2.val)
  \/ (t1.code = "SSA_NAME" /\ t1 = t2)

(* ------------------------------------------------------------------ *)
(* value_range_base (tree-vrp.c).                                      *)
(* ------------------------------------------------------------------ *)

vrp_val_max(type, handle_pointers) ==
  IF INTEGRAL_TYPE_P(type) THEN build_int_cst(type, type.max_value)
  ELSE IF POINTER_TYPE_P(type) /\ handle_pointers
       THEN wide_int_to_tree(type, wi_max_value(type.precision, type.unsignedp))
       ELSE NULL_TREE

vrp_val_min(type, handle_pointers) ==
  IF INTEGRAL_TYPE_P(type) THEN build_int_cst(type, type.min_value)
  ELSE IF POINTER_TYPE_P(type) /\ handle_pointers
       THEN build_int_cst(type, 0)
       ELSE NULL_TREE

vrp_val_is_max(val, handle_pointers) ==
  LET type_max == vrp_val_max(TREE_TYPE(val), handle_pointers)
  IN  val = type_max \/ (type_max # NULL_TREE /\ operand_equal_p(val, type_max))

vrp_val_is_min(val, handle_pointers) ==
  LET type_min == vrp_val_min(TREE_TYPE(val), handle_pointers)
  IN  val = type_min \/ (type_min # NULL_TREE /\ operand_equal_p(val, type_min))

set_undefined == [kind |-> "VR_UNDEFINED", min |-> NULL_TREE, max |-> NULL_TREE]

(* set_varying storing the undefined range. *)
set_varying_as_undefined(type) ==
  [kind |-> "VR_UNDEFINED", min |-> NULL_TREE, max |-> NULL_TREE]

set_varying(type) ==
  [kind |-> "VR_VARYING", min |-> vrp_val_min(type, TRUE), max |-> vrp_val_max(type, TRUE)]

(* value_range_base::set: the canonical form of KIND [MIN0, MAX0]. *)
set(kind, min0, max0) ==
  IF kind = "VR_UNDEFINED" THEN set_undefined
  ELSE IF kind = "VR_VARYING" THEN set_varying(TREE_TYPE(min0))
  ELSE IF min0.code # "INTEGER_CST" \/ max0.code # "INTEGER_CST"
  THEN [kind |-> kind, min |-> min0, max |-> max0]
  ELSE
  LET type == TREE_TYPE(min0)
      one == build_int_cst(type, 1)
      wrong == tree_int_cst_lt(max0, min0)
      (* wrong order: [max + 1, min - 1] of the other kind *)
      min1 == IF wrong THEN int_const_binop("PLUS_EXPR", max0, one) ELSE min0
      max1 == IF wrong THEN int_const_binop("MINUS_EXPR", min0, one) ELSE max0
      kind1 == IF ~wrong THEN kind
               ELSE IF kind = "VR_RANGE" THEN "VR_ANTI_RANGE" ELSE "VR_RANGE"
      is_min == INTEGRAL_TYPE_P(type)
                /\ tree_int_cst_compare(min1, build_int_cst(type, type.min_value)) <= 0
      is_max == INTEGRAL_TYPE_P(type)
                /\ tree_int_cst_compare(max1, build_int_cst(type, type.max_value)) >= 0
      (* anti-ranges that can be represented as ranges *)
      norm ==
        IF kind1 # "VR_ANTI_RANGE" THEN [kind |-> kind1, min |-> min1, max |-> max1]
        ELSE IF type.precision = 1 /\ (is_min \/ is_max)
        THEN IF is_min
             THEN [kind |-> "VR_RANGE", min |-> vrp_val_max(type, FALSE),
                   max |-> vrp_val_max(type, FALSE)]
             ELSE [kind |-> "VR_RANGE", min |-> vrp_val_min(type, FALSE),
                   max |-> vrp_val_min(type, FALSE)]
        ELSE IF is_min \/ (POINTER_TYPE_P(type) /\ min1.val = 0)
        THEN [kind |-> "VR_RANGE", min |-> int_const_binop("PLUS_EXPR", max1, one),
              max |-> vrp_val_max(type, TRUE)]
        ELSE IF is_max
        THEN [kind |-> "VR_RANGE", min |-> vrp_val_min(type, FALSE),
              max |-> int_const_binop("MINUS_EXPR", min1, one)]
        ELSE [kind |-> kind1, min |-> min1, max |-> max1]
  IN  IF wrong /\ type.precision = 1 THEN set_varying(type)
      ELSE IF wrong /\ tree_int_cst_lt(max1, min1) THEN set_varying(type)
      ELSE IF kind1 = "VR_ANTI_RANGE" /\ is_min /\ is_max THEN set_varying(type)
      ELSE IF norm.min.val = wi_min_value(type.precision, type.unsignedp)
              /\ norm.max.val = wi_max_value(type.precision, type.unsignedp)
      THEN IF norm.kind = "VR_RANGE" THEN set_varying(type) ELSE set_undefined
      ELSE norm

set_nonzero(type) == set("VR_ANTI_RANGE", build_int_cst(type, 0), build_int_cst(type, 0))

(* operand_less_p: 1 if VAL < VAL2, 0 if not, -2 if incomparable. *)
operand_less_p(val, val2) ==
  IF val.code = "INTEGER_CST" /\ val2.code = "INTEGER_CST"
  THEN IF tree_int_cst_lt(val, val2) THEN 1 ELSE 0
  ELSE -2

(* compare_values on two constants of one type: -1, 0 or 1; -2 if
   one of them is no constant. *)
compare_values(val1, val2) ==
  IF val1 = val2 THEN 0
  ELSE IF val1.code = "INTEGER_CST" /\ val2.code = "INTEGER_CST"
  THEN tree_int_cst_compare(val1, val2)
  ELSE -2

(* value_range_base::value_inside_range: 1 inside, 0 outside, -2 unknown. *)
value_inside_range(vr, val) ==
  IF vr.kind = "VR_VARYING" THEN 1
  ELSE IF vr.kind = "VR_UNDEFINED" THEN 0
  ELSE LET cmp1 == operand_less_p(val, vr.min)
           cmp2 == operand_less_p(vr.max, val)
       IN  IF cmp1 = -2 THEN -2
           ELSE IF cmp1 = 1 THEN (IF vr.kind # "VR_RANGE" THEN 1 ELSE 0)
           ELSE IF cmp2 = -2 THEN -2
           ELSE IF vr.kind = "VR_RANGE" THEN (IF cmp2 = 0 THEN 1 ELSE 0)
           ELSE (IF cmp2 # 0 THEN 1 ELSE 0)

may_contain_p(vr, val) == value_inside_range(vr, val) # 0

(* value_range_base::check: the assertions made of a stored range. *)
check(vr) ==
  CASE vr.kind \in {"VR_RANGE", "VR_ANTI_RANGE"} ->
         /\ vr.min # NULL_TREE /\ vr.max # NULL_TREE
         /\ (INTEGRAL_TYPE_P(TREE_TYPE(vr.min)) /\ vr.kind = "VR_ANTI_RANGE")
               => (~vrp_val_is_min(vr.min, FALSE) \/ ~vrp_val_is_max(vr.max, FALSE))
         /\ compare_values(vr.min, vr.max) \in {0, -1, -2}
    [] vr.kind = "VR_UNDEFINED" -> vr.min = NULL_TREE /\ vr.max = NULL_TREE
    [] vr.kind = "VR_VARYING" -> vr.min # NULL_TREE /\ vr.max # NULL_TREE
    [] OTHER -> FALSE

vrp_operand_equal_p(val1, val2) ==
  val1 = val2
  \/ (val1 # NULL_TREE /\ val2 # NULL_TREE /\ operand_equal_p(val1, val2))

(* A kind and two bounds as union_ranges and intersect_ranges pass
   them: not canonicalised. *)
VR(kind, min, max) == [kind |-> kind, min |-> min, max |-> max]

(* plus_one adding two, minus_one subtracting nothing. *)
plus_two(t) == int_const_binop("PLUS_EXPR", t, build_int_cst(TREE_TYPE(t), 2))

minus_none(t) == t

(* t + 1 and t - 1 by int_const_binop with build_int_cst (TREE_TYPE (t), 1). *)
plus_one(t) == int_const_binop("PLUS_EXPR", t, build_int_cst(TREE_TYPE(t), 1))

minus_one(t) == int_const_binop("MINUS_EXPR", t, build_int_cst(TREE_TYPE(t), 1))

(* union_ranges: VR0 is [], VR1 is () in the comments; give_up is
   VR_VARYING with null bounds. *)
union_ranges(vr0, vr1) ==
  LET cmpmin == compare_values(vr0.min, vr1.min)
      cmpmax == compare_values(vr0.max, vr1.max)
      mineq == cmpmin = 0
      maxeq == cmpmax = 0
      RR == vr0.kind = "VR_RANGE" /\ vr1.kind = "VR_RANGE"
      AA == vr0.kind = "VR_ANTI_RANGE" /\ vr1.kind = "VR_ANTI_RANGE"
      AR == vr0.kind = "VR_ANTI_RANGE" /\ vr1.kind = "VR_RANGE"
      RA == vr0.kind = "VR_RANGE" /\ vr1.kind = "VR_ANTI_RANGE"
      cst(t) == t.code = "INTEGER_CST"
      give_up == VR("VR_VARYING", NULL_TREE, NULL_TREE)
  IN
  IF mineq /\ maxeq
  THEN (* [(  )] *)
       IF vr0.kind = vr1.kind THEN vr0 ELSE give_up
  ELSE IF operand_less_p(vr0.max, vr1.min) = 1 \/ operand_less_p(vr1.max, vr0.min) = 1
  THEN (* [ ] ( ) or ( ) [ ] *)
       IF AA THEN give_up
       ELSE IF AR THEN vr0
       ELSE IF RA THEN vr1
       ELSE IF operand_less_p(vr0.max, vr1.min) = 1
       THEN IF cst(vr0.max) /\ cst(vr1.min)
               /\ vrp_val_is_min(vr0.min, FALSE) /\ vrp_val_is_max(vr1.max, FALSE)
            THEN LET min == plus_one(vr0.max)
                     max == minus_one(vr1.min)
                 IN  IF operand_less_p(max, min) = 0
                     THEN VR("VR_ANTI_RANGE", min, max)
                     ELSE VR(vr0.kind, vr0.min, vr1.max)
            ELSE VR(vr0.kind, vr0.min, vr1.max)
       ELSE IF cst(vr1.max) /\ cst(vr0.min)
               /\ vrp_val_is_min(vr1.min, FALSE) /\ vrp_val_is_max(vr0.max, FALSE)
            THEN LET min == plus_one(vr1.max)
                     max == minus_one(vr0.min)
                 IN  IF operand_less_p(max, min) = 0
                     THEN VR("VR_ANTI_RANGE", min, max)
                     ELSE VR(vr0.kind, vr1.min, vr0.max)
            ELSE VR(vr0.kind, vr1.min, vr0.max)
  ELSE IF (maxeq \/ cmpmax = 1) /\ (mineq \/ cmpmin = -1)
  THEN (* [ (  ) ] or [(  ) ] or [ (  )] *)
       IF RR THEN vr0
       ELSE IF AA THEN vr1
       ELSE IF AR
       THEN IF ~mineq /\ cst(vr1.min) THEN VR(vr0.kind, vr0.min, minus_one(vr1.min))
            ELSE IF ~maxeq /\ cst(vr1.max) THEN VR(vr0.kind, plus_one(vr1.max), vr0.max)
            ELSE give_up
       ELSE give_up
  ELSE IF (maxeq \/ cmpmax = -1) /\ (mineq \/ cmpmin = 1)
  THEN (* ( [  ] ) or ([  ] ) or ( [  ]) *)
       IF RR THEN vr1
       ELSE IF AA THEN vr0
       ELSE IF RA
       THEN IF ~mineq /\ cst(vr0.min)
            THEN VR("VR_ANTI_RANGE", vr1.min, minus_one(vr0.min))
            ELSE IF ~maxeq /\ cst(vr0.max)
            THEN VR("VR_ANTI_RANGE", plus_one(vr0.max), vr1.max)
            ELSE give_up
       ELSE give_up
  ELSE IF cmpmin = -1 /\ cmpmax = -1
          /\ (operand_less_p(vr1.min, vr0.max) = 1 \/ operand_equal_p(vr1.min, vr0.max))
  THEN (* [  (  ]  ) or [   ](   ) *)
       IF RR THEN VR(vr0.kind, vr0.min, vr1.max)
       ELSE IF AA THEN VR(vr0.kind, vr1.min, vr0.max)
       ELSE IF AR
       THEN IF cst(vr1.min) THEN VR(vr0.kind, vr0.min, minus_one(vr1.min)) ELSE give_up
       ELSE IF cst(vr0.max) THEN VR(vr1.kind, plus_one(vr0.max), vr1.max) ELSE give_up
  ELSE IF cmpmin = 1 /\ cmpmax = 1
          /\ (operand_less_p(vr0.min, vr1.max) = 1 \/ operand_equal_p(vr0.min, vr1.max))
  THEN (* (  [  )  ] or (   )[   ] *)
       IF RR THEN VR(vr0.kind, vr1.min, vr0.max)
       ELSE IF AA THEN VR(vr0.kind, vr0.min, vr1.max)
       ELSE IF AR
       THEN IF cst(vr1.max) THEN VR(vr0.kind, plus_one(vr1.max), vr0.max) ELSE give_up
       ELSE IF cst(vr0.min) THEN VR(vr1.kind, vr1.min, minus_one(vr0.min)) ELSE give_up
  ELSE give_up

(* range_includes_zero_p (tree-vrp.h). *)
range_includes_zero_p(vr) ==
  IF vr.kind = "VR_UNDEFINED" THEN FALSE
  ELSE IF vr.kind = "VR_VARYING" THEN TRUE
  ELSE may_contain_p(vr, build_int_cst(TREE_TYPE(vr.min), 0))

(* union_helper falling back to nonzero on VR0 alone. *)
union_helper_nonzero_first(vr0, vr1) ==
  IF vr1.kind = "VR_UNDEFINED" \/ vr0.kind = "VR_VARYING" THEN vr0
  ELSE IF vr0.kind = "VR_UNDEFINED" \/ vr1.kind = "VR_VARYING" THEN vr1
  ELSE LET u == union_ranges(vr0, vr1)
           tem == IF u.kind = "VR_UNDEFINED" THEN set_undefined
                  ELSE IF u.kind = "VR_VARYING" THEN set_varying(TREE_TYPE(vr0.min))
                  ELSE set(u.kind, u.min, u.max)
       IN  IF tem.kind = "VR_VARYING" /\ ~range_includes_zero_p(vr0)
           THEN set_nonzero(TREE_TYPE(vr0.min))
           ELSE tem

(* value_range_base::union_helper: a range containing VR0 and VR1. *)
union_helper(vr0, vr1) ==
  IF vr1.kind = "VR_UNDEFINED" \/ vr0.kind = "VR_VARYING" THEN vr0
  ELSE IF vr0.kind = "VR_UNDEFINED" \/ vr1.kind = "VR_VARYING" THEN vr1
  ELSE LET u == union_ranges(vr0, vr1)
           tem == IF u.kind = "VR_UNDEFINED" THEN set_undefined
                  ELSE IF u.kind = "VR_VARYING" THEN set_varying(TREE_TYPE(vr0.min))
                  ELSE set(u.kind, u.min, u.max)
       IN  IF tem.kind = "VR_VARYING"
              /\ ~range_includes_zero_p(vr0) /\ ~range_includes_zero_p(vr1)
           THEN set_nonzero(TREE_TYPE(vr0.min))
           ELSE tem

(* wi::clz of X at precision PREC: the number of leading zero bits. *)
clz(x, prec) == Cardinality({i \in 1..prec : x < 2^(prec - i)})

(* TYPE_PRECISION (integer_type_node). *)
INT_TYPE_SIZE == 32

(* intersect_ranges: VR0 is [], VR1 is () in the comments. *)
intersect_ranges(vr0, vr1) ==
  LET mineq == vrp_operand_equal_p(vr0.min, vr1.min)
      maxeq == vrp_operand_equal_p(vr0.max, vr1.max)
      RR == vr0.kind = "VR_RANGE" /\ vr1.kind = "VR_RANGE"
      AA == vr0.kind = "VR_ANTI_RANGE" /\ vr1.kind = "VR_ANTI_RANGE"
      AR == vr0.kind = "VR_ANTI_RANGE" /\ vr1.kind = "VR_RANGE"
      RA == vr0.kind = "VR_RANGE" /\ vr1.kind = "VR_ANTI_RANGE"
      cst(t) == t.code = "INTEGER_CST"
      empty == VR("VR_UNDEFINED", NULL_TREE, NULL_TREE)
      bool1(t) == TREE_TYPE(t).precision = 1 /\ ~TREE_TYPE(t).unsignedp
      (* the bound next above T, and next below T *)
      above(t) == IF ~cst(t) THEN t
                  ELSE IF bool1(t)
                  THEN int_const_binop("MINUS_EXPR", t, build_int_cst(TREE_TYPE(t), -1))
                  ELSE plus_one(t)
      below(t) == IF ~cst(t) THEN t
                  ELSE IF bool1(t)
                  THEN int_const_binop("PLUS_EXPR", t, build_int_cst(TREE_TYPE(t), -1))
                  ELSE minus_one(t)
      adjacent(lo, hi) == cst(lo) /\ cst(hi) /\ operand_less_p(lo, hi) = 1
                          /\ int_const_binop("MINUS_EXPR", hi, lo).val = 1
      r ==
        IF mineq /\ maxeq
        THEN (* [(  )] *)
             IF vr0.kind = vr1.kind THEN vr0 ELSE empty
        ELSE IF operand_less_p(vr0.max, vr1.min) = 1 \/ operand_less_p(vr1.max, vr0.min) = 1
        THEN (* [ ] ( ) or ( ) [ ] *)
             IF RA THEN vr0
             ELSE IF AR THEN vr1
             ELSE IF RR THEN empty
             ELSE IF adjacent(vr0.max, vr1.min) THEN VR(vr0.kind, vr0.min, vr1.max)
             ELSE IF adjacent(vr1.max, vr0.min) THEN VR(vr0.kind, vr1.min, vr0.max)
             ELSE vr0
        ELSE IF (maxeq \/ operand_less_p(vr1.max, vr0.max) = 1)
                /\ (mineq \/ operand_less_p(vr0.min, vr1.min) = 1)
        THEN (* [ (  ) ] or [(  ) ] or [ (  )] *)
             IF RR THEN vr1
             ELSE IF RA
             THEN IF mineq THEN VR(vr0.kind, above(vr1.max), vr0.max)
                  ELSE IF maxeq THEN VR(vr0.kind, vr0.min, below(vr1.min))
                  ELSE IF vrp_val_is_min(vr0.min, FALSE) /\ vrp_val_is_max(vr0.max, FALSE)
                  THEN vr1
                  ELSE vr0
             ELSE IF AA THEN vr0
             ELSE empty
        ELSE IF (maxeq \/ operand_less_p(vr0.max, vr1.max) = 1)
                /\ (mineq \/ operand_less_p(vr1.min, vr0.min) = 1)
        THEN (* ( [  ] ) or ([  ] ) or ( [  ]) *)
             IF RR THEN vr0
             ELSE IF AR
             THEN IF mineq THEN VR("VR_RANGE", above(vr0.max), vr1.max)
                  ELSE IF maxeq THEN VR("VR_RANGE", vr1.min, below(vr0.min))
                  ELSE IF vrp_val_is_min(vr1.min, FALSE) /\ vrp_val_is_max(vr1.max, FALSE)
                  THEN vr0
                  ELSE IF vr0.min = vr0.max /\ vr0.min.val = 0
                          /\ (TREE_TYPE(vr0.min).precision >= INT_TYPE_SIZE
                              \/ POINTER_TYPE_P(TREE_TYPE(vr0.min)))
                          /\ cst(vr1.max) /\ cst(vr1.min)
                          /\ clz((vr1.max.val - vr1.min.val) % 2^TREE_TYPE(vr0.min).precision,
                                 TREE_TYPE(vr0.min).precision)
                               < TREE_TYPE(vr0.min).precision \div 2
                  THEN vr0
                  ELSE vr1
             ELSE IF AA THEN vr1
             ELSE empty
        ELSE IF (operand_less_p(vr1.min, vr0.max) = 1 \/ operand_equal_p(vr1.min, vr0.max))
                /\ operand_less_p(vr0.min, vr1.min) = 1
        THEN (* [  (  ]  ) or [  ](  ) *)
             IF AA THEN VR(vr0.kind, vr0.min, vr1.max)
             ELSE IF RR THEN VR(vr0.kind, vr1.min, vr0.max)
             ELSE IF RA THEN VR(vr0.kind, vr0.min, IF cst(vr1.min) THEN minus_one(vr1.min) ELSE vr1.min)
             ELSE VR("VR_RANGE", IF cst(vr0.max) THEN plus_one(vr0.max) ELSE vr0.max, vr1.max)
        ELSE IF (operand_less_p(vr0.min, vr1.max) = 1 \/ operand_equal_p(vr0.min, vr1.max))
                /\ operand_less_p(vr1.min, vr0.min) = 1
        THEN (* (  [  )  ] or (  )[  ] *)
             IF AA THEN VR(vr0.kind, vr1.min, vr0.max)
             ELSE IF RR THEN VR(vr0.kind, vr0.min, vr1.max)
             ELSE IF RA THEN VR(vr0.kind, IF cst(vr1.max) THEN plus_one(vr1.max) ELSE vr1.max, vr0.max)
             ELSE VR("VR_RANGE", vr1.min, IF cst(vr0.min) THEN minus_one(vr0.min) ELSE vr0.min)
        ELSE vr0
  IN  IF r.kind = "VR_UNDEFINED" THEN r
      (* VR1 a constant singleton range: choose it *)
      ELSE IF vr1.kind = "VR_RANGE" /\ cst(vr1.min) /\ vrp_operand_equal_p(vr1.min, vr1.max)
      THEN vr1
      ELSE r

(* intersect_helper giving up to varying, as union_helper does, where
   intersect_ranges kept VR0 for want of a better answer. *)
intersect_helper_varying_fallback(vr0, vr1) ==
  IF vr1.kind = "VR_VARYING" THEN vr0
  ELSE IF vr0.kind = "VR_VARYING" THEN vr1
  ELSE IF vr0.kind = "VR_UNDEFINED" THEN vr0
  ELSE IF vr1.kind = "VR_UNDEFINED" THEN vr1
  ELSE LET i == intersect_ranges(vr0, vr1)
           tem == IF i.kind = "VR_UNDEFINED" THEN set_undefined
                  ELSE IF i.kind = "VR_VARYING" THEN set_varying(TREE_TYPE(vr0.min))
                  ELSE set(i.kind, i.min, i.max)
       IN  IF tem = vr0 /\ tem # vr1 THEN set_varying(TREE_TYPE(vr0.min)) ELSE tem

(* value_range_base::intersect_helper. *)
intersect_helper(vr0, vr1) ==
  IF vr1.kind = "VR_VARYING" THEN vr0
  ELSE IF vr0.kind = "VR_VARYING" THEN vr1
  ELSE IF vr0.kind = "VR_UNDEFINED" THEN vr0
  ELSE IF vr1.kind = "VR_UNDEFINED" THEN vr1
  ELSE LET i == intersect_ranges(vr0, vr1)
           tem == IF i.kind = "VR_UNDEFINED" THEN set_undefined
                  ELSE IF i.kind = "VR_VARYING" THEN set_varying(TREE_TYPE(vr0.min))
                  ELSE set(i.kind, i.min, i.max)
       IN  IF tem.kind = "VR_VARYING" THEN vr0 ELSE tem

(* value_range_base::equal_p: all undefined ranges are equal. *)
equal_p(vr, other) ==
  IF vr.kind = "VR_UNDEFINED" THEN vr.kind = other.kind
  ELSE vr.kind = other.kind
       /\ vrp_operand_equal_p(vr.min, other.min)
       /\ vrp_operand_equal_p(vr.max, other.max)

(* ------------------------------------------------------------------ *)
(* Ranges of PLUS_EXPR and MINUS_EXPR (tree-vrp.c).                    *)
(* ------------------------------------------------------------------ *)

(* wi_result losing the overflow. *)
wi_result_no_overflow(type, exact) ==
  [wi |-> wide_int_to_tree(type, exact).val, ovf |-> "OVF_NONE"]

(* wi::add and wi::sub (wide-int.h) on the exact result: the value
   wrapped to the type and the kind of overflow. *)
wi_result(type, exact) ==
  [wi  |-> wide_int_to_tree(type, exact).val,
   ovf |-> IF exact > wi_max_value(type.precision, type.unsignedp) THEN "OVF_OVERFLOW"
           ELSE IF exact < wi_min_value(type.precision, type.unsignedp) THEN "OVF_UNDERFLOW"
           ELSE "OVF_NONE"]

(* combine_bound: OP0 code OP1, either of which may be missing. *)
combine_bound(code, type, op0, op1) ==
  LET minus_p == code = "MINUS_EXPR"
  IN  IF op0 # NULL_TREE /\ op1 # NULL_TREE
      THEN IF minus_p THEN wi_result(type, op0.val - op1.val)
           ELSE wi_result(type, op0.val + op1.val)
      ELSE IF op0 # NULL_TREE THEN [wi |-> op0.val, ovf |-> "OVF_NONE"]
      ELSE IF op1 # NULL_TREE
      THEN IF minus_p THEN wi_result(type, 0 - op1.val)
           ELSE [wi |-> op1.val, ovf |-> "OVF_NONE"]
      ELSE [wi |-> 0, ovf |-> "OVF_NONE"]

(* set_value_range_with_overflow: the kind and bounds for [WMIN, WMAX]
   given how each bound overflowed; the bounds stay null when the kind
   is VR_VARYING. *)
set_value_range_with_overflow(type, wmin, wmax, min_ovf, max_ovf) ==
  LET prec == type.precision
      varying == VR("VR_VARYING", NULL_TREE, NULL_TREE)
      type_min == wi_min_value(prec, type.unsignedp)
      type_max == wi_max_value(prec, type.unsignedp)
      (* the anti-range [wmax + 1, wmin - 1], in wide_int arithmetic *)
      tmin == wide_int_to_tree(type, wmax + 1).val
      tmax == wide_int_to_tree(type, wmin - 1).val
      covers == tmin < wmax \/ tmax > wmin
  IN  IF prec = 1 /\ wmax < wmin THEN varying
      ELSE IF type.overflow_wraps
      THEN IF (min_ovf # "OVF_NONE") = (max_ovf # "OVF_NONE")
           THEN IF wmin > wmax THEN varying
                ELSE VR("VR_RANGE", wide_int_to_tree(type, wmin), wide_int_to_tree(type, wmax))
           ELSE IF (min_ovf = "OVF_UNDERFLOW" /\ max_ovf = "OVF_NONE")
                   \/ (max_ovf = "OVF_OVERFLOW" /\ min_ovf = "OVF_NONE")
           THEN IF covers \/ tmin > tmax THEN varying
                ELSE VR("VR_ANTI_RANGE", wide_int_to_tree(type, tmin),
                        wide_int_to_tree(type, tmax))
           ELSE varying
      ELSE VR("VR_RANGE",
              IF min_ovf = "OVF_UNDERFLOW" THEN wide_int_to_tree(type, type_min)
              ELSE IF min_ovf = "OVF_OVERFLOW" THEN wide_int_to_tree(type, type_max)
              ELSE wide_int_to_tree(type, wmin),
              IF max_ovf = "OVF_UNDERFLOW" THEN wide_int_to_tree(type, type_min)
              ELSE IF max_ovf = "OVF_OVERFLOW" THEN wide_int_to_tree(type, type_max)
              ELSE wide_int_to_tree(type, wmax))

(* ranges_from_anti_range forgetting the part above the hole. *)
ranges_from_anti_range_lower_only(ar, handle_pointers) ==
  LET type_min == vrp_val_min(TREE_TYPE(ar.min), handle_pointers)
      type_max == vrp_val_max(TREE_TYPE(ar.min), handle_pointers)
      lower == IF tree_int_cst_lt(type_min, ar.min)
               THEN set("VR_RANGE", type_min,
                        wide_int_to_tree(TREE_TYPE(ar.min), ar.min.val - 1))
               ELSE set_undefined
  IN  IF ar.kind # "VR_ANTI_RANGE"
         \/ ar.min.code # "INTEGER_CST" \/ ar.max.code # "INTEGER_CST"
         \/ type_min = NULL_TREE \/ type_max = NULL_TREE
      THEN [ok |-> FALSE, vr0 |-> set_undefined, vr1 |-> set_undefined]
      ELSE [ok |-> lower.kind # "VR_UNDEFINED", vr0 |-> lower, vr1 |-> set_undefined]

(* ranges_from_anti_range: two ranges vr0 and vr1 whose union is the
   anti-range AR; ok is the value returned. *)
ranges_from_anti_range(ar, handle_pointers) ==
  LET type_min == vrp_val_min(TREE_TYPE(ar.min), handle_pointers)
      type_max == vrp_val_max(TREE_TYPE(ar.min), handle_pointers)
      lower == IF tree_int_cst_lt(type_min, ar.min)
               THEN set("VR_RANGE", type_min,
                        wide_int_to_tree(TREE_TYPE(ar.min), ar.min.val - 1))
               ELSE set_undefined
      upper == IF tree_int_cst_lt(ar.max, type_max)
               THEN set("VR_RANGE", wide_int_to_tree(TREE_TYPE(ar.min), ar.max.val + 1),
                        type_max)
               ELSE set_undefined
  IN  IF ar.kind # "VR_ANTI_RANGE"
         \/ ar.min.code # "INTEGER_CST" \/ ar.max.code # "INTEGER_CST"
         \/ type_min = NULL_TREE \/ type_max = NULL_TREE
      THEN [ok |-> FALSE, vr0 |-> set_undefined, vr1 |-> set_undefined]
      ELSE IF lower.kind = "VR_UNDEFINED"
      THEN [ok |-> upper.kind # "VR_UNDEFINED", vr0 |-> upper, vr1 |-> set_undefined]
      ELSE [ok |-> TRUE, vr0 |-> lower, vr1 |-> upper]

(* extract_range_from_plus_minus_expr: the range of VR0_ code VR1_ in
   EXPR_TYPE, an integral type. *)
RECURSIVE extract_range_from_plus_minus_expr(_, _, _, _)
extract_range_from_plus_minus_expr(code, expr_type, vr0_, vr1_) ==
  LET split0 == ranges_from_anti_range(vr0_, FALSE)
      split1 == ranges_from_anti_range(vr1_, FALSE)
      vr0_kind == IF vr0_.kind = "VR_VARYING" THEN "VR_RANGE" ELSE vr0_.kind
      vr0_min == IF vr0_.kind = "VR_VARYING" THEN vrp_val_min(expr_type, FALSE) ELSE vr0_.min
      vr0_max == IF vr0_.kind = "VR_VARYING" THEN vrp_val_max(expr_type, FALSE) ELSE vr0_.max
      vr1_kind == IF vr1_.kind = "VR_VARYING" THEN "VR_RANGE" ELSE vr1_.kind
      vr1_min == IF vr1_.kind = "VR_VARYING" THEN vrp_val_min(expr_type, FALSE) ELSE vr1_.min
      vr1_max == IF vr1_.kind = "VR_VARYING" THEN vrp_val_max(expr_type, FALSE) ELSE vr1_.max
      minus_p == code = "MINUS_EXPR"
      min_op0 == vr0_min
      min_op1 == IF minus_p THEN vr1_max ELSE vr1_min
      max_op0 == vr0_max
      max_op1 == IF minus_p THEN vr1_min ELSE vr1_max
      wmin == combine_bound(code, expr_type, min_op0, min_op1)
      wmax == combine_bound(code, expr_type, max_op0, max_op1)
      adj == set_value_range_with_overflow(expr_type, wmin.wi, wmax.wi, wmin.ovf, wmax.ovf)
  IN  IF vr0_.kind = "VR_ANTI_RANGE" /\ split0.ok
      THEN LET first == extract_range_from_plus_minus_expr(code, expr_type, split0.vr0, vr1_)
           IN  IF split0.vr1.kind # "VR_UNDEFINED"
               THEN union_helper(first,
                      extract_range_from_plus_minus_expr(code, expr_type, split0.vr1, vr1_))
               ELSE first
      ELSE IF vr1_.kind = "VR_ANTI_RANGE" /\ split1.ok
      THEN LET first == extract_range_from_plus_minus_expr(code, expr_type, vr0_, split1.vr0)
           IN  IF split1.vr1.kind # "VR_UNDEFINED"
               THEN union_helper(first,
                      extract_range_from_plus_minus_expr(code, expr_type, vr0_, split1.vr1))
               ELSE first
      ELSE IF ~(vr0_kind = "VR_RANGE" /\ vr1_kind = "VR_RANGE"
                /\ min_op0.code = "INTEGER_CST" /\ min_op1.code = "INTEGER_CST"
                /\ max_op0.code = "INTEGER_CST" /\ max_op1.code = "INTEGER_CST")
      THEN set_varying(expr_type)
      ELSE IF adj.kind = "VR_VARYING" THEN set_varying(expr_type)
      ELSE IF adj.min = NULL_TREE \/ adj.max = NULL_TREE THEN set_varying(expr_type)
      ELSE IF compare_values(adj.min, adj.max) \in {-2, 1} THEN set_varying(expr_type)
      ELSE set(adj.kind, adj.min, adj.max)

(* ------------------------------------------------------------------ *)
(* A value_range_base object and the operations applied to it.         *)
(* ------------------------------------------------------------------ *)

VARIABLES
  type,   \* the type of the bounds handed to the object
  this,   \* the value_range_base: m_kind, m_min, m_max
  op,     \* the member function that ran last
  req,    \* the kind and bounds last requested of set by a caller
  other,  \* the argument of the last intersect or union_
  prev    \* *this before the last member function ran

latticeVars == <<type, this, op, req, other, prev>>

VARIABLES
  expr_type,  \* the type of a PLUS_EXPR or MINUS_EXPR
  opnd0,      \* the range of its first operand
  opnd1,      \* the range of its second operand
  expr_code,  \* PLUS_EXPR or MINUS_EXPR
  expr_vr,    \* the range extract_range_from_plus_minus_expr stored
  arith_pc    \* what the caller does next: "vr0", "vr1", "expr", "done"

arithVars == <<expr_type, opnd0, opnd1, expr_code, expr_vr, arith_pc>>

VARIABLES
  flag_strict_aliasing,  \* -fstrict-aliasing
  ao1,       \* the first reference of the query, an ao_ref
  ao2,       \* the second reference
  tbaa,      \* the tbaa_p argument of the query
  memory,    \* the value of each pointer and index of the references
  answers,   \* the answers of refs_may_alias_p_1, in the order asked
  alias_pc   \* the query made next: "ref1_ref2", "ref2_ref1", "done"

aliasVars == <<flag_strict_aliasing, ao1, ao2, tbaa, memory, answers, alias_pc>>

VARIABLES
  ssa,         \* the virtual operands of the function: their definitions, the dominators
  clobber,     \* the virtual definitions whose statement may clobber the reference
  lookup,      \* the walker callback: the virtual use it answers at, and its answer
  translate,   \* the translate callback: "absent", or what it returns
  limit,       \* the alias queries left
  budget,      \* LIMIT as the caller passed it
  vuse,        \* the virtual use walk_non_aliased_vuses is at
  visited,     \* the bitmap of visited names
  translated,  \* whether the reference has been translated
  result,      \* what walk_non_aliased_vuses returns
  frames,      \* the calls of get_continuation_for_phi and maybe_skip_until in progress
  ret,         \* the value the call that ended last returned
  walk_pc,     \* "walk", "call", "return", "done"
  queries,     \* the alias queries made
  looked       \* the PHI nodes handed to get_continuation_for_phi

walkVars == <<ssa, clobber, lookup, translate, limit, budget, vuse, visited, translated, result, frames, ret, walk_pc, queries, looked>>

VARIABLES
  cfun,            \* the function: the type of its names, their definitions, its edges
  vr_value,        \* the range recorded for each name
  simulate_again,  \* the statements the engine still simulates
  executable,      \* the edges marked executable
  cfg_worklist,    \* the edges the engine has yet to take
  ssa_worklist,    \* the statements the engine has yet to visit
  moves,           \* for each name, the kinds its recorded range went from and to
  solve_pc         \* "vrp_initialize", "ssa_prop_init", "ssa_propagate", "done"

solveVars == <<cfun, vr_value, simulate_again, executable, cfg_worklist, ssa_worklist, moves, solve_pc>>

VARIABLES
  flag_errno_math,  \* -fmath-errno
  kill_stmt,   \* the statement asked about
  kill_ref,    \* the reference asked about, a tree
  kill_tbaa,   \* the tbaa_p argument of stmt_may_clobber_ref_p
  kills,       \* the answer of stmt_kills_ref_p
  clobbers,    \* the answer of stmt_may_clobber_ref_p
  kill_pc      \* the query made next: "kills", "may_clobber", "done"

killVars == <<flag_errno_math, kill_stmt, kill_ref, kill_tbaa, kills, clobbers, kill_pc>>

(* The walk over the aliased virtual definitions: its arguments, the
   bitmap of the visited definitions, the calls in progress, the count,
   and how often each definition was counted and offered to the walker. *)
VARIABLES vdef_ref, vdef_walker, vdef_limit, vdef_supplied, vdef_visited, vdef_frames, cnt, function_entry_reached, walked, offered, vdef_ret, vdef_pc

vdefVars == <<vdef_ref, vdef_walker, vdef_limit, vdef_supplied, vdef_visited, vdef_frames, cnt, function_entry_reached, walked, offered, vdef_ret, vdef_pc>>

(* The range assertions: the function, the hashes of the constants,
   the loci registered for the name, the names that need assertions,
   the loci the assertions were inserted at, and the phase. *)
VARIABLES fun, value_hash, asserts_for, need_assert_for, inserted, assert_pc

assertVars == <<fun, value_hash, asserts_for, need_assert_for, inserted, assert_pc>>

VARIABLES
  pplus_type,  \* the pointer type of a POINTER_PLUS_EXPR
  flag_delete_null_pointer_checks,  \* -fdelete-null-pointer-checks
  pplus_vr0,   \* the range of the pointer operand
  pplus_vr1,   \* the range of the offset operand, of sizetype
  pplus_vr,    \* the range extract_range_from_pointer_plus_expr stored
  pplus_pc     \* what the caller does next: "vr0", "vr1", "expr", "done"

pplusVars == <<pplus_type, flag_delete_null_pointer_checks, pplus_vr0, pplus_vr1, pplus_vr, pplus_pc>>

(* A null tree, for the names of virtual operands, and a null result. *)
NULL == "NULL"

vars == <<latticeVars, arithVars, aliasVars, walkVars, solveVars, killVars, vdefVars, assertVars, pplusVars>>

latticeRest == <<arithVars, aliasVars, walkVars, solveVars, killVars, vdefVars, assertVars, pplusVars>>

arithRest == <<latticeVars, aliasVars, walkVars, solveVars, killVars, vdefVars, assertVars, pplusVars>>

aliasRest == <<latticeVars, arithVars, walkVars, solveVars, killVars, vdefVars, assertVars, pplusVars>>

walkRest == <<latticeVars, arithVars, aliasVars, solveVars, killVars, vdefVars, assertVars, pplusVars>>

solveRest == <<latticeVars, arithVars, aliasVars, walkVars, killVars, vdefVars, assertVars, pplusVars>>

killRest == <<latticeVars, arithVars, aliasVars, walkVars, solveVars, vdefVars, assertVars, pplusVars>>

vdefRest == <<latticeVars, arithVars, aliasVars, walkVars, solveVars, killVars, assertVars, pplusVars>>

assertRest == <<latticeVars, arithVars, aliasVars, walkVars, solveVars, killVars, vdefVars, pplusVars>>

pplusRest == <<latticeVars, arithVars, aliasVars, walkVars, solveVars, killVars, vdefVars, assertVars>>

Kinds == {"VR_UNDEFINED", "VR_RANGE", "VR_ANTI_RANGE", "VR_VARYING"}

(* The types ranged over: signed, unsigned, strict enum and pointer of
   Prec bits, and the two one-bit integer types. *)
LatticeTypes ==
  {integer_type(FALSE, Prec, FALSE), integer_type(TRUE, Prec, FALSE),
   enumeral_type(Prec), pointer_type(Prec, FALSE),
   integer_type(FALSE, 1, FALSE), integer_type(TRUE, 1, FALSE)}

(* Every INTEGER_CST of a type. *)
Constants(t) ==
  {wide_int_to_tree(t, v) :
     v \in wi_min_value(t.precision, t.unsignedp) .. wi_max_value(t.precision, t.unsignedp)}

(* Signed without and with -fwrapv, and unsigned, of Prec bits and of
   one bit: the types of the expressions ranged over. *)
ArithTypes ==
  {integer_type(FALSE, Prec, FALSE), integer_type(FALSE, Prec, TRUE),
   integer_type(TRUE, Prec, FALSE),
   integer_type(FALSE, 1, FALSE), integer_type(FALSE, 1, TRUE),
   integer_type(TRUE, 1, FALSE)}

(* Every range set can build from constants of a type, by type. *)
Constructible ==
  [t \in LatticeTypes \cup ArithTypes |->
     {set(k, lo, hi) : k \in Kinds, lo \in Constants(t), hi \in Constants(t)}]

(* value_range_base::value_range_base (): undefined. *)
LatticeInit ==
  /\ type \in LatticeTypes
  /\ this = set_undefined
  /\ op = "value_range_base"
  /\ req = set_undefined
  /\ other = set_undefined
  /\ prev = set_undefined
  (* The other components are not in use. *)
  /\ expr_type = NULL_TREE /\ opnd0 = set_undefined /\ opnd1 = set_undefined
  /\ expr_code = "ERROR_MARK" /\ expr_vr = set_undefined /\ arith_pc = "none"
  /\ flag_strict_aliasing = FALSE /\ tbaa = FALSE /\ ao1 = NULL_TREE /\ ao2 = NULL_TREE
  /\ memory = <<>> /\ answers = <<>> /\ alias_pc = "none"
  /\ ssa = <<>> /\ clobber = {} /\ lookup = <<>> /\ translate = "absent" /\ limit = 0
  /\ budget = 0 /\ vuse = NULL /\ visited = {} /\ translated = FALSE /\ result = NULL
  /\ frames = <<>> /\ ret = <<>> /\ walk_pc = "none" /\ queries = 0 /\ looked = 0
  /\ cfun = <<>> /\ vr_value = <<>> /\ simulate_again = {} /\ executable = {}
  /\ cfg_worklist = {} /\ ssa_worklist = {} /\ moves = {} /\ solve_pc = "none"
  /\ flag_errno_math = FALSE /\ kill_stmt = NULL_TREE /\ kill_ref = NULL_TREE /\ kill_tbaa = FALSE
  /\ kills = NULL /\ clobbers = NULL /\ kill_pc = "none"
  /\ vdef_ref = NULL /\ vdef_walker = NULL /\ vdef_limit = 0 /\ vdef_supplied = "absent"
  /\ vdef_visited = <<>> /\ vdef_frames = <<>> /\ cnt = 0 /\ function_entry_reached = FALSE
  /\ walked = <<>> /\ offered = <<>> /\ vdef_ret = NULL /\ vdef_pc = "none"
  /\ fun = <<>> /\ value_hash = <<>> /\ asserts_for = <<>> /\ need_assert_for = {}
  /\ inserted = <<>> /\ assert_pc = "none"
  /\ pplus_type = NULL_TREE /\ flag_delete_null_pointer_checks = FALSE /\ pplus_vr0 = set_undefined
  /\ pplus_vr1 = set_undefined /\ pplus_vr = set_undefined /\ pplus_pc = "none"

(* this->set (kind, min, max) on a fresh object. *)
Set(kind, min, max) ==
  /\ op = "value_range_base"
  /\ this' = set(kind, min, max)
  /\ op' = "set"
  /\ req' = VR(kind, min, max)
  /\ prev' = this
  /\ UNCHANGED <<type, other>>
  /\ UNCHANGED latticeRest

(* value_range (const value_range_base &): set applied to the fields
   of a range that set built. *)
SetAgain ==
  /\ op = "set"
  /\ this' = set(this.kind, this.min, this.max)
  /\ op' = "set_again"
  /\ prev' = this
  /\ UNCHANGED <<type, req, other>>
  /\ UNCHANGED latticeRest

(* The arguments union_helper and intersect_helper hand to set for the
   triple U that union_ranges or intersect_ranges computed; the helpers
   call set only when both operands are ranges or anti-ranges and U is. *)
helper_set_req(vr0, vr1, u) ==
  IF vr0.kind \in {"VR_RANGE", "VR_ANTI_RANGE"} /\ vr1.kind \in {"VR_RANGE", "VR_ANTI_RANGE"}
     /\ u.kind \in {"VR_RANGE", "VR_ANTI_RANGE"}
  THEN u
  ELSE VR("VR_UNDEFINED", NULL_TREE, NULL_TREE)

(* this->intersect (&o). *)
Intersect(o) ==
  /\ op = "set"
  /\ this' = intersect_helper(this, o)
  /\ op' = "intersect"
  /\ req' = helper_set_req(this, o, intersect_ranges(this, o))
  /\ other' = o
  /\ prev' = this
  /\ UNCHANGED type
  /\ UNCHANGED latticeRest

(* this->union_ (&o). *)
Union(o) ==
  /\ op = "set"
  /\ this' = union_helper(this, o)
  /\ op' = "union_"
  /\ req' = helper_set_req(this, o, union_ranges(this, o))
  /\ other' = o
  /\ prev' = this
  /\ UNCHANGED type
  /\ UNCHANGED latticeRest

LatticeNext ==
  \/ (op = "value_range_base"
      /\ \E k \in Kinds, lo \in Constants(type), hi \in Constants(type) : Set(k, lo, hi))
  \/ SetAgain
  \/ (op = "set" /\ \E o \in Constructible[type] : Intersect(o))
  \/ (op = "set" /\ \E o \in Constructible[type] : Union(o))

SpecLattice == LatticeInit /\ [][LatticeNext]_vars

(* ------------------------------------------------------------------ *)
(* A PLUS_EXPR or MINUS_EXPR whose operand ranges are built by set.    *)
(* ------------------------------------------------------------------ *)

ArithInit ==
  /\ expr_type \in ArithTypes
  /\ opnd0 = set_undefined /\ opnd1 = set_undefined
  /\ expr_code = "ERROR_MARK" /\ expr_vr = set_undefined
  /\ arith_pc = "vr0"
  (* The other components are not in use. *)
  /\ type = NULL_TREE /\ this = set_undefined /\ op = "none"
  /\ req = set_undefined /\ other = set_undefined /\ prev = set_undefined
  /\ flag_strict_aliasing = FALSE /\ tbaa = FALSE /\ ao1 = NULL_TREE /\ ao2 = NULL_TREE
  /\ memory = <<>> /\ answers = <<>> /\ alias_pc = "none"
  /\ ssa = <<>> /\ clobber = {} /\ lookup = <<>> /\ translate = "absent" /\ limit = 0
  /\ budget = 0 /\ vuse = NULL /\ visited = {} /\ translated = FALSE /\ result = NULL
  /\ frames = <<>> /\ ret = <<>> /\ walk_pc = "none" /\ queries = 0 /\ looked = 0
  /\ cfun = <<>> /\ vr_value = <<>> /\ simulate_again = {} /\ executable = {}
  /\ cfg_worklist = {} /\ ssa_worklist = {} /\ moves = {} /\ solve_pc = "none"
  /\ flag_errno_math = FALSE /\ kill_stmt = NULL_TREE /\ kill_ref = NULL_TREE /\ kill_tbaa = FALSE
  /\ kills = NULL /\ clobbers = NULL /\ kill_pc = "none"
  /\ vdef_ref = NULL /\ vdef_walker = NULL /\ vdef_limit = 0 /\ vdef_supplied = "absent"
  /\ vdef_visited = <<>> /\ vdef_frames = <<>> /\ cnt = 0 /\ function_entry_reached = FALSE
  /\ walked = <<>> /\ offered = <<>> /\ vdef_ret = NULL /\ vdef_pc = "none"
  /\ fun = <<>> /\ value_hash = <<>> /\ asserts_for = <<>> /\ need_assert_for = {}
  /\ inserted = <<>> /\ assert_pc = "none"
  /\ pplus_type = NULL_TREE /\ flag_delete_null_pointer_checks = FALSE /\ pplus_vr0 = set_undefined
  /\ pplus_vr1 = set_undefined /\ pplus_vr = set_undefined /\ pplus_pc = "none"

(* The range of the first operand, built by set. *)
SetOperand0(vr0) ==
  /\ arith_pc = "vr0"
  /\ opnd0' = vr0
  /\ arith_pc' = "vr1"
  /\ UNCHANGED <<expr_type, opnd1, expr_code, expr_vr>>
  /\ UNCHANGED arithRest

(* The range of the second operand, built by set. *)
SetOperand1(vr1) ==
  /\ arith_pc = "vr1"
  /\ opnd1' = vr1
  /\ arith_pc' = "expr"
  /\ UNCHANGED <<expr_type, opnd0, expr_code, expr_vr>>
  /\ UNCHANGED arithRest

(* extract_range_from_plus_minus_expr (&vr, code, expr_type, &vr0, &vr1). *)
ExtractPlusMinus(c) ==
  /\ arith_pc = "expr"
  /\ expr_code' = c
  /\ expr_vr' = extract_range_from_plus_minus_expr(c, expr_type, opnd0, opnd1)
  /\ arith_pc' = "done"
  /\ UNCHANGED <<expr_type, opnd0, opnd1>>
  /\ UNCHANGED arithRest

ArithNext ==
  \/ (arith_pc = "vr0" /\ \E vr0 \in Constructible[expr_type] : SetOperand0(vr0))
  \/ (arith_pc = "vr1" /\ \E vr1 \in Constructible[expr_type] : SetOperand1(vr1))
  \/ \E c \in {"PLUS_EXPR", "MINUS_EXPR"} : ExtractPlusMinus(c)

SpecArith == ArithInit /\ [][ArithNext]_vars

(* ------------------------------------------------------------------ *)
(* The range of a pointer addition.                                    *)
(* ------------------------------------------------------------------ *)

(* sizetype: unsigned, of the precision of a pointer. *)
sizetype == integer_type(TRUE, Prec, FALSE)

(* value_range_base::set_zero. *)
set_zero(t) == set("VR_RANGE", build_int_cst(t, 0), build_int_cst(t, 0))

(* value_range_base::zero_p: the range [0, 0]. *)
zero_p(vr) ==
  vr.kind = "VR_RANGE" /\ vr.min.code = "INTEGER_CST" /\ vr.min.val = 0
  /\ vr.max.code = "INTEGER_CST" /\ vr.max.val = 0

(* range_int_cst_p: a VR_RANGE with INTEGER_CST bounds. *)
range_int_cst_p(vr) ==
  vr.kind = "VR_RANGE" /\ vr.min.code = "INTEGER_CST" /\ vr.max.code = "INTEGER_CST"

(* tree_int_cst_sign_bit: the top bit of the constant in its precision. *)
tree_int_cst_sign_bit(t) ==
  ((t.val % 2^TREE_TYPE(t).precision) \div 2^(TREE_TYPE(t).precision - 1)) % 2 = 1

TYPE_OVERFLOW_WRAPS(t) == t.overflow_wraps

(* extract_range_from_pointer_plus_expr with both operands required to
   exclude zero. *)
extract_range_from_pointer_plus_expr_both_nonzero(expr_type_, vr0, vr1) ==
  IF (~range_includes_zero_p(vr0) /\ ~range_includes_zero_p(vr1))
     /\ ~TYPE_OVERFLOW_WRAPS(expr_type_)
     /\ (IF flag_delete_null_pointer_checks THEN TRUE
         ELSE IF range_int_cst_p(vr1) THEN ~tree_int_cst_sign_bit(vr1.max) ELSE FALSE)
  THEN set_nonzero(expr_type_)
  ELSE IF zero_p(vr0) /\ zero_p(vr1) THEN set_zero(expr_type_)
  ELSE set_varying(expr_type_)

(* extract_range_from_pointer_plus_expr: the range of VR0 + VR1 in the
   pointer type EXPR_TYPE. *)
extract_range_from_pointer_plus_expr(expr_type_, vr0, vr1) ==
  IF (~range_includes_zero_p(vr0) \/ ~range_includes_zero_p(vr1))
     /\ ~TYPE_OVERFLOW_WRAPS(expr_type_)
     /\ (IF flag_delete_null_pointer_checks THEN TRUE
         ELSE IF range_int_cst_p(vr1) THEN ~tree_int_cst_sign_bit(vr1.max) ELSE FALSE)
  THEN set_nonzero(expr_type_)
  ELSE IF zero_p(vr0) /\ zero_p(vr1) THEN set_zero(expr_type_)
  ELSE set_varying(expr_type_)

(* Pointers without and with -fwrapv-pointer. *)
PointerTypes == {pointer_type(Prec, FALSE), pointer_type(Prec, TRUE)}

(* Every range set can build from constants of a pointer type or of
   sizetype. *)
PointerPlusOperands ==
  [t \in PointerTypes \cup {sizetype} |->
     {set(k, lo, hi) : k \in Kinds, lo \in Constants(t), hi \in Constants(t)}]

PointerPlusInit ==
  /\ pplus_type \in PointerTypes
  /\ flag_delete_null_pointer_checks \in BOOLEAN
  /\ pplus_vr0 = set_undefined /\ pplus_vr1 = set_undefined
  /\ pplus_vr = set_undefined
  /\ pplus_pc = "vr0"
  (* The other components are not in use. *)
  /\ type = NULL_TREE /\ this = set_undefined /\ op = "none"
  /\ req = set_undefined /\ other = set_undefined /\ prev = set_undefined
  /\ expr_type = NULL_TREE /\ opnd0 = set_undefined /\ opnd1 = set_undefined
  /\ expr_code = "ERROR_MARK" /\ expr_vr = set_undefined /\ arith_pc = "none"
  /\ flag_strict_aliasing = FALSE /\ tbaa = FALSE /\ ao1 = NULL_TREE /\ ao2 = NULL_TREE
  /\ memory = <<>> /\ answers = <<>> /\ alias_pc = "none"
  /\ ssa = <<>> /\ clobber = {} /\ lookup = <<>> /\ translate = "absent" /\ limit = 0
  /\ budget = 0 /\ vuse = NULL /\ visited = {} /\ translated = FALSE /\ result = NULL
  /\ frames = <<>> /\ ret = <<>> /\ walk_pc = "none" /\ queries = 0 /\ looked = 0
  /\ cfun = <<>> /\ vr_value = <<>> /\ simulate_again = {} /\ executable = {}
  /\ cfg_worklist = {} /\ ssa_worklist = {} /\ moves = {} /\ solve_pc = "none"
  /\ flag_errno_math = FALSE /\ kill_stmt = NULL_TREE /\ kill_ref = NULL_TREE /\ kill_tbaa = FALSE
  /\ kills = NULL /\ clobbers = NULL /\ kill_pc = "none"
  /\ vdef_ref = NULL /\ vdef_walker = NULL /\ vdef_limit = 0 /\ vdef_supplied = "absent"
  /\ vdef_visited = <<>> /\ vdef_frames = <<>> /\ cnt = 0 /\ function_entry_reached = FALSE
  /\ walked = <<>> /\ offered = <<>> /\ vdef_ret = NULL /\ vdef_pc = "none"
  /\ fun = <<>> /\ value_hash = <<>> /\ asserts_for = <<>> /\ need_assert_for = {}
  /\ inserted = <<>> /\ assert_pc = "none"

(* The range of the pointer operand, built by set. *)
PointerOperand0(vr0) ==
  /\ pplus_pc = "vr0"
  /\ pplus_vr0' = vr0
  /\ pplus_pc' = "vr1"
  /\ UNCHANGED <<pplus_type, flag_delete_null_pointer_checks, pplus_vr1, pplus_vr>>
  /\ UNCHANGED pplusRest

(* The range of the offset operand, built by set. *)
PointerOperand1(vr1) ==
  /\ pplus_pc = "vr1"
  /\ pplus_vr1' = vr1
  /\ pplus_pc' = "expr"
  /\ UNCHANGED <<pplus_type, flag_delete_null_pointer_checks, pplus_vr0, pplus_vr>>
  /\ UNCHANGED pplusRest

(* extract_range_from_pointer_plus_expr (&vr, POINTER_PLUS_EXPR,
   expr_type, &vr0, &vr1). *)
ExtractPointerPlus ==
  /\ pplus_pc = "expr"
  /\ pplus_vr' = extract_range_from_pointer_plus_expr(pplus_type, pplus_vr0, pplus_vr1)
  /\ pplus_pc' = "done"
  /\ UNCHANGED <<pplus_type, flag_delete_null_pointer_checks, pplus_vr0, pplus_vr1>>
  /\ UNCHANGED pplusRest

PointerPlusNext ==
  \/ (pplus_pc = "vr0" /\ \E vr0 \in PointerPlusOperands[pplus_type] : PointerOperand0(vr0))
  \/ (pplus_pc = "vr1" /\ \E vr1 \in PointerPlusOperands[sizetype] : PointerOperand1(vr1))
  \/ ExtractPointerPlus

SpecPointerPlus == PointerPlusInit /\ [][PointerPlusNext]_vars

(* ------------------------------------------------------------------ *)
(* Trees of the alias oracle: types, declarations, references.         *)
(* ------------------------------------------------------------------ *)

(* The largest constant array index, and one less than the number of
   elements behind a trailing array. *)
MaxIndex == 1

LOG2_BITS_PER_UNIT == 3

BITS_PER_UNIT == 2^LOG2_BITS_PER_UNIT

(* int, float, int[0] and
     struct A { int i; int j; };
     struct B { struct A a; int k; };
     struct Z { int array[0]; };
   with their sizes in bits and their alias sets. *)
integer_type_node ==
  [code |-> "INTEGER_TYPE", name |-> "int", uid |-> 1, size |-> 32, alias_set |-> 1]

float_type_node ==
  [code |-> "REAL_TYPE", name |-> "float", uid |-> 2, size |-> 32, alias_set |-> 2]

array0_type ==
  [code |-> "ARRAY_TYPE", name |-> "int[0]", uid |-> 3, size |-> 0, alias_set |-> 1,
   type |-> integer_type_node]

struct_A == [code |-> "RECORD_TYPE", name |-> "A", uid |-> 4, size |-> 64, alias_set |-> 3]

struct_B == [code |-> "RECORD_TYPE", name |-> "B", uid |-> 5, size |-> 96, alias_set |-> 5]

struct_Z == [code |-> "RECORD_TYPE", name |-> "Z", uid |-> 6, size |-> 0, alias_set |-> 4]

build_pointer_type(to_type) ==
  [code |-> "POINTER_TYPE", name |-> "*", uid |-> 7, size |-> 64, alias_set |-> 6,
   type |-> to_type]

TYPE_SIZE(t) == t.size

(* The alias sets recorded as children of an alias set: those of the
   members of the record type. *)
alias_set_children(s) ==
  IF s = 3 THEN {1} ELSE IF s = 4 THEN {1} ELSE IF s = 5 THEN {3, 1} ELSE {}

(* A FIELD_DECL; "last" when no field follows it in its record. *)
build_field(name, context, ftype, bitpos, last) ==
  [code |-> "FIELD_DECL", name |-> name, context |-> context, type |-> ftype,
   bitpos |-> bitpos, size |-> ftype.size, last |-> last, bit_field |-> FALSE]

field_i == build_field("i", struct_A, integer_type_node, 0, FALSE)

field_j == build_field("j", struct_A, integer_type_node, 32, TRUE)

field_a == build_field("a", struct_B, struct_A, 0, FALSE)

field_k == build_field("k", struct_B, integer_type_node, 64, TRUE)

field_array == build_field("array", struct_Z, array0_type, 0, TRUE)

DECL_CONTEXT(field) == field.context

DECL_FIELD_OFFSET(field) == field.bitpos \div BITS_PER_UNIT

DECL_FIELD_BIT_OFFSET(field) == field.bitpos % BITS_PER_UNIT

DECL_SIZE(decl) == decl.size

(* A VAR_DECL. *)
build_decl(name, vtype, addressable) ==
  [code |-> "VAR_DECL", name |-> name, type |-> vtype, size |-> vtype.size,
   addressable |-> addressable]

(* An SSA_NAME with its points-to information: none (SSA_NAME_PTR_INFO
   is NULL) or the set of variables pointed to. *)
make_ssa_name(name, stype, has_pi, pt) ==
  [code |-> "SSA_NAME", name |-> name, type |-> stype,
   ptr_info |-> [null |-> ~has_pi, vars |-> pt], readonly |-> FALSE]

integer_cst(itype, v) == [code |-> "INTEGER_CST", type |-> itype, val |-> v]

integer_zero_node == integer_cst(integer_type_node, 0)

(* A function and a label: their types have no size. *)
function_type == [code |-> "FUNCTION_TYPE", name |-> "void ()", uid |-> 8, size |-> -1, alias_set |-> 0]

void_type_node == [code |-> "VOID_TYPE", name |-> "void", uid |-> 9, size |-> -1, alias_set |-> 0]

build_fn_decl(name) ==
  [code |-> "FUNCTION_DECL", name |-> name, type |-> function_type, size |-> -1,
   addressable |-> TRUE]

create_artificial_label(name) ==
  [code |-> "LABEL_DECL", name |-> name, type |-> void_type_node, size |-> -1,
   addressable |-> FALSE]

(* The string constant "abc" and its address. *)
char_type_node ==
  [code |-> "INTEGER_TYPE", name |-> "char", uid |-> 11, size |-> 8, alias_set |-> 0]

char_array_type ==
  [code |-> "ARRAY_TYPE", name |-> "char[4]", uid |-> 10, size |-> 32, alias_set |-> 0,
   type |-> char_type_node]

build_string(str) == [code |-> "STRING_CST", type |-> char_array_type, str |-> str]

build_fold_addr_expr(t) ==
  [code |-> "ADDR_EXPR", type |-> build_pointer_type(TREE_TYPE(t)), op0 |-> t]

(* An access through a volatile-qualified lvalue: the reference with
   TREE_THIS_VOLATILE set. *)
TREE_THIS_VOLATILE(t) == "this_volatile" \in DOMAIN t

build_volatile(t) == t @@ [this_volatile |-> TRUE]

(* MEM_REF [ptr + off]: operand 1 carries the offset in bytes and the
   pointer type the access is made through. *)
build_mem_ref(ptr, off) ==
  [code |-> "MEM_REF", type |-> TREE_TYPE(TREE_TYPE(ptr)), op0 |-> ptr,
   op1 |-> integer_cst(TREE_TYPE(ptr), off), clique |-> 0, base |-> 0]

build_component_ref(op0, field) ==
  [code |-> "COMPONENT_REF", type |-> field.type, op0 |-> op0, op1 |-> field]

build_array_ref(op0, index) ==
  [code |-> "ARRAY_REF", type |-> TREE_TYPE(TREE_TYPE(op0)), op0 |-> op0,
   op1 |-> index, op2 |-> NULL_TREE, op3 |-> NULL_TREE]

TREE_CODE(t) == t.code

DECL_P(t) ==
  t.code \in {"VAR_DECL", "PARM_DECL", "RESULT_DECL", "FUNCTION_DECL",
              "LABEL_DECL", "CONST_DECL", "FIELD_DECL"}

VAR_P(t) == t.code = "VAR_DECL"

CONSTANT_CLASS_P(t) ==
  t.code \in {"INTEGER_CST", "REAL_CST", "STRING_CST", "COMPLEX_CST", "VECTOR_CST"}

handled_component_p(t) ==
  t.code \in {"COMPONENT_REF", "BIT_FIELD_REF", "ARRAY_REF", "ARRAY_RANGE_REF",
              "REALPART_EXPR", "IMAGPART_EXPR", "VIEW_CONVERT_EXPR"}

RECORD_OR_UNION_TYPE_P(t) ==
  t.code \in {"RECORD_TYPE", "UNION_TYPE", "QUAL_UNION_TYPE"}

AGGREGATE_TYPE_P(t) == t.code = "ARRAY_TYPE" \/ RECORD_OR_UNION_TYPE_P(t)

mem_ref_offset(t) == t.op1.val

may_be_aliased(decl) == decl.addressable

MR_DEPENDENCE_CLIQUE(t) == t.clique

MR_DEPENDENCE_BASE(t) == t.base

(* get_alias_set of a reference: that of the type a MEM_REF's pointer
   operand points to, else that of the reference's type. *)
get_alias_set(t) ==
  IF t.code = "MEM_REF" THEN TREE_TYPE(TREE_TYPE(t.op1)).alias_set
  ELSE TREE_TYPE(t).alias_set

(* alias_set_subset_of: SET1 is among the children of SET2, or SET2 is
   the alias set 0 that holds everything. *)
alias_set_subset_of(set1, set2) ==
  IF ~flag_strict_aliasing THEN TRUE
  ELSE IF set2 = 0 THEN TRUE
  ELSE set1 \in alias_set_children(set2)

alias_sets_conflict_p(set1, set2) ==
  \/ set1 = set2 \/ set1 = 0 \/ set2 = 0
  \/ set1 \in alias_set_children(set2)
  \/ set2 \in alias_set_children(set1)

(* array_at_struct_end_p: the array is the last field of its record and
   is reached through a pointer. *)
RECURSIVE get_base_address(_)
get_base_address(t) == IF handled_component_p(t) THEN get_base_address(t.op0) ELSE t

array_at_struct_end_p(ref) ==
  ref.op1.last /\ get_base_address(ref).code = "MEM_REF"

maybe_in_range_p(val, pos, size) ==
  IF val < pos THEN FALSE ELSE IF size = -1 THEN TRUE ELSE val - pos < size

(* ranges_maybe_overlap_p: a size of -1 is an unknown size. *)
ranges_maybe_overlap_p(pos1, size1, pos2, size2) ==
  IF maybe_in_range_p(pos2, pos1, size1) THEN size2 # 0
  ELSE IF maybe_in_range_p(pos1, pos2, size2) THEN size1 # 0
  ELSE FALSE

(* get_ref_base_and_extent: the walk from the reference to its base,
   adding the constant offsets and widening the extent at a variable
   array index. *)
RECURSIVE get_ref_base_and_extent_1(_, _, _, _)
get_ref_base_and_extent_1(exp, bit_offset, maxsize, seen_variable_array_ref) ==
  IF exp.code = "COMPONENT_REF" THEN
    LET field == exp.op1
        stype == TREE_TYPE(exp.op0)
        off   == bit_offset + field.bitpos
        pad   == (stype.size - field.size) - field.bitpos
    IN  IF seen_variable_array_ref /\ (field.last \/ stype.code # "RECORD_TYPE")
        THEN get_ref_base_and_extent_1(exp.op0, off,
               IF maxsize # -1 THEN maxsize + pad ELSE maxsize, TRUE)
        ELSE get_ref_base_and_extent_1(exp.op0, off, maxsize, FALSE)
  ELSE IF exp.code = "ARRAY_REF" THEN
    IF exp.op1.code = "INTEGER_CST"
    THEN get_ref_base_and_extent_1(exp.op0,
           bit_offset + exp.op1.val * TYPE_SIZE(TREE_TYPE(exp)),
           maxsize, seen_variable_array_ref)
    ELSE get_ref_base_and_extent_1(exp.op0, bit_offset,
           IF maxsize # -1 THEN TYPE_SIZE(TREE_TYPE(exp.op0)) - bit_offset ELSE -1,
           TRUE)
  ELSE IF exp.code = "MEM_REF" /\ exp.op0.code = "ADDR_EXPR" THEN
    [base |-> exp.op0.op0,
     offset |-> bit_offset + mem_ref_offset(exp) * BITS_PER_UNIT,
     max_size |-> maxsize]
  ELSE IF exp.code = "MEM_REF" THEN
    [base |-> exp, offset |-> bit_offset,
     max_size |-> IF seen_variable_array_ref
                     /\ bit_offset + maxsize = TYPE_SIZE(TREE_TYPE(exp))
                  THEN -1 ELSE maxsize]
  ELSE [base |-> exp, offset |-> bit_offset, max_size |-> maxsize]

get_ref_base_and_extent(exp) ==
  LET size == TYPE_SIZE(TREE_TYPE(exp))
      w    == get_ref_base_and_extent_1(exp, 0, size, FALSE)
  IN  [base |-> w.base, offset |-> w.offset, size |-> size, max_size |-> w.max_size]

(* ------------------------------------------------------------------ *)
(* The alias oracle (tree-ssa-alias.c).                                *)
(* ------------------------------------------------------------------ *)

(* ao_ref_init followed by ao_ref_base: the reference with its base,
   offset, size and maximal size. *)
(* ao_ref_init that does not record TREE_THIS_VOLATILE. *)
ao_ref_init_not_volatile(ref) ==
  LET e == get_ref_base_and_extent(ref)
  IN  [ref |-> ref, base |-> e.base, offset |-> e.offset, size |-> e.size,
       max_size |-> e.max_size, volatile_p |-> FALSE]

ao_ref_init(ref) ==
  LET e == get_ref_base_and_extent(ref)
  IN  [ref |-> ref, base |-> e.base, offset |-> e.offset, size |-> e.size,
       max_size |-> e.max_size, volatile_p |-> TREE_THIS_VOLATILE(ref)]

ao_ref_base(r) == r.base

ao_ref_base_alias_set(r) ==
  IF r.ref = NULL_TREE THEN 0 ELSE get_alias_set(get_base_address(r.ref))

ao_ref_alias_set(r) == IF r.ref = NULL_TREE THEN 0 ELSE get_alias_set(r.ref)

pt_solution_includes(pi, decl) == decl.name \in pi.vars

pt_solutions_intersect(pi1, pi2) == pi1.vars \cap pi2.vars # {}

(* compare_base_decls that cannot tell two different variables apart. *)
compare_base_decls_unknown(base1, base2) == IF base1 = base2 THEN 1 ELSE -1

compare_base_decls(base1, base2) == IF base1 = base2 THEN 1 ELSE 0

ptr_deref_may_alias_decl_p(ptr, decl) ==
  IF \/ ptr.code \notin {"SSA_NAME", "ADDR_EXPR", "POINTER_PLUS_EXPR"}
     \/ ~POINTER_TYPE_P(TREE_TYPE(ptr))
     \/ (~VAR_P(decl) /\ decl.code \notin {"PARM_DECL", "RESULT_DECL"})
  THEN TRUE
  ELSE IF ptr.code = "ADDR_EXPR" /\ DECL_P(get_base_address(ptr.op0))
  THEN compare_base_decls(get_base_address(ptr.op0), decl) # 0
  ELSE IF ptr.code = "ADDR_EXPR"
  THEN ~CONSTANT_CLASS_P(get_base_address(ptr.op0))
  ELSE IF ~may_be_aliased(decl) THEN FALSE
  ELSE IF ptr.ptr_info.null THEN TRUE
  ELSE pt_solution_includes(ptr.ptr_info, decl)

ptr_derefs_may_alias_p(ptr1, ptr2) ==
  IF ptr1.code = "ADDR_EXPR"
  THEN (IF DECL_P(get_base_address(ptr1.op0))
        THEN ptr_deref_may_alias_decl_p(ptr2, get_base_address(ptr1.op0)) ELSE TRUE)
  ELSE IF ptr2.code = "ADDR_EXPR"
  THEN (IF DECL_P(get_base_address(ptr2.op0))
        THEN ptr_deref_may_alias_decl_p(ptr1, get_base_address(ptr2.op0)) ELSE TRUE)
  ELSE IF \/ ptr1.code # "SSA_NAME" \/ ptr2.code # "SSA_NAME"
     \/ ~POINTER_TYPE_P(TREE_TYPE(ptr1)) \/ ~POINTER_TYPE_P(TREE_TYPE(ptr2))
  THEN TRUE
  ELSE IF ptr1 = ptr2 THEN TRUE
  ELSE IF ptr1.ptr_info.null \/ ptr2.ptr_info.null THEN TRUE
  ELSE pt_solutions_intersect(ptr1.ptr_info, ptr2.ptr_info)

compare_sizes(s1, s2) == IF s1 < s2 THEN -1 ELSE IF s2 < s1 THEN 1 ELSE 0

RECURSIVE strip_array_types(_)
strip_array_types(t) ==
  IF t.code \in {"ARRAY_TYPE", "VECTOR_TYPE"} THEN strip_array_types(TREE_TYPE(t))
  ELSE t

compare_type_sizes(type1, type2) ==
  compare_sizes(TYPE_SIZE(strip_array_types(type1)),
                TYPE_SIZE(strip_array_types(type2)))

(* Every type is its own main variant and its own canonical type. *)
same_type_for_tbaa(type1, type2) ==
  IF type1 = type2 THEN 1
  ELSE IF type1.code = "ARRAY_TYPE" /\ type2.code = "ARRAY_TYPE" THEN -1
  ELSE IF type1.alias_set = type2.alias_set THEN -1
  ELSE 0

type_has_components_p(t) ==
  AGGREGATE_TYPE_P(t) \/ t.code = "VECTOR_TYPE" \/ t.code = "COMPLEX_TYPE"

nonoverlapping_component_refs_p_1(field1, field2) ==
  LET type1 == DECL_CONTEXT(field1)
      type2 == DECL_CONTEXT(field2)
      offset1 == DECL_FIELD_OFFSET(field1) * BITS_PER_UNIT + DECL_FIELD_BIT_OFFSET(field1)
      offset2 == DECL_FIELD_OFFSET(field2) * BITS_PER_UNIT + DECL_FIELD_BIT_OFFSET(field2)
  IN  IF field1.bit_field /\ field2.bit_field THEN -1
      ELSE IF type1 = type2 /\ type1.code = "RECORD_TYPE"
      THEN (IF field1 # field2 THEN 1 ELSE 0)
      ELSE IF /\ DECL_FIELD_OFFSET(field1) = DECL_FIELD_OFFSET(field2)
              /\ DECL_FIELD_BIT_OFFSET(field1) = DECL_FIELD_BIT_OFFSET(field2)
      THEN 0
      ELSE IF offset1 = offset2 THEN 0
      ELSE IF ~ranges_maybe_overlap_p(offset1, DECL_SIZE(field1),
                                      offset2, DECL_SIZE(field2))
      THEN 1
      ELSE -1

cheap_array_ref_low_bound(ref) ==
  IF ref.op2 # NULL_TREE THEN ref.op2 ELSE integer_zero_node

nonoverlapping_array_refs_p(ref1, ref2) ==
  LET index1 == ref1.op1
      index2 == ref2.op1
      low_bound1 == cheap_array_ref_low_bound(ref1)
      low_bound2 == cheap_array_ref_low_bound(ref2)
      elmt_type1 == TREE_TYPE(TREE_TYPE(ref1.op0))
      elmt_type2 == TREE_TYPE(TREE_TYPE(ref2.op0))
  IN  IF operand_equal_p(index1, low_bound1) /\ operand_equal_p(index2, low_bound2)
      THEN 0
      ELSE IF (ref1.op3 = NULL_TREE) # (ref2.op3 = NULL_TREE) THEN -1
      ELSE IF ref1.op3 # NULL_TREE /\ ~operand_equal_p(ref1.op3, ref2.op3) THEN -1
      ELSE IF ref1.op3 = NULL_TREE /\ TYPE_SIZE(elmt_type1) # TYPE_SIZE(elmt_type2)
      THEN -1
      ELSE IF ~operand_equal_p(low_bound1, low_bound2) THEN 0
      ELSE IF index1.code = "INTEGER_CST" /\ index2.code = "INTEGER_CST"
      THEN (IF index1.val = index2.val THEN 0 ELSE 1)
      ELSE 0

(* A local variable assigned once: the value E is computed once and the
   rest of the function, F, reads it. *)
Bind(e, F(_)) == F(e)

(* The handled components from REF down to MATCH in the order they are
   pushed, and the tree the walk stops at. *)
RECURSIVE component_refs_stack(_, _, _)
component_refs_stack(ref, match, stack) ==
  IF handled_component_p(ref) /\ ref # match
  THEN component_refs_stack(ref.op0, match,
         IF ref.code \in {"VIEW_CONVERT_EXPR", "BIT_FIELD_REF"} THEN <<>>
         ELSE Append(stack, ref))
  ELSE [stack |-> stack, ref |-> ref]

last_of(stack) == stack[Len(stack)]

pop(stack) == SubSeq(stack, 1, Len(stack) - 1)

(* The number of ARRAY_REFs at the top of the stack. *)
RECURSIVE narray_refs(_)
narray_refs(stack) ==
  IF stack = <<>> \/ last_of(stack).code # "ARRAY_REF" THEN 0
  ELSE 1 + narray_refs(pop(stack))

(* Pop K array refs the other path does not have: ret is 0 when one of
   them has an index other than its low bound. *)
RECURSIVE pop_unmatched_array_refs(_, _)
pop_unmatched_array_refs(stack, k) ==
  IF k = 0 THEN [ret |-> -2, stack |-> stack]
  ELSE IF ~operand_equal_p(last_of(stack).op1,
                           cheap_array_ref_low_bound(last_of(stack)))
  THEN [ret |-> 0, stack |-> stack]
  ELSE pop_unmatched_array_refs(pop(stack), k - 1)

(* Try to disambiguate N matched array refs: ret is 1 when a pair is
   known not to overlap. *)
RECURSIVE match_array_refs(_, _, _, _, _)
match_array_refs(stack1, stack2, n, partial_overlap, seen_unmatched_ref_p) ==
  IF n = 0
  THEN [ret |-> -2, stack1 |-> stack1, stack2 |-> stack2,
        seen_unmatched_ref_p |-> seen_unmatched_ref_p]
  ELSE LET cmp == nonoverlapping_array_refs_p(last_of(stack1), last_of(stack2))
       IN  IF cmp = 1 /\ ~partial_overlap
           THEN [ret |-> 1, stack1 |-> stack1, stack2 |-> stack2,
                 seen_unmatched_ref_p |-> seen_unmatched_ref_p]
           ELSE match_array_refs(pop(stack1), pop(stack2), n - 1, FALSE,
                                 seen_unmatched_ref_p \/ cmp = -1)

(* Pop up to the next reference into a record or union. *)
RECURSIVE pop_component_ref(_, _)
pop_component_ref(stack, seen_unmatched_ref_p) ==
  IF stack = <<>>
  THEN [empty |-> TRUE, ref |-> NULL_TREE, stack |-> stack,
        seen_unmatched_ref_p |-> seen_unmatched_ref_p]
  ELSE LET ref  == last_of(stack)
           seen == seen_unmatched_ref_p \/ ref.code # "COMPONENT_REF"
       IN  IF RECORD_OR_UNION_TYPE_P(TREE_TYPE(ref.op0))
           THEN [empty |-> FALSE, ref |-> ref, stack |-> pop(stack),
                 seen_unmatched_ref_p |-> seen]
           ELSE pop_component_ref(pop(stack), seen)

(* The loop of nonoverlapping_refs_since_match_p over the two stacks. *)
RECURSIVE nonoverlapping_refs_since_match_loop(_, _, _)
nonoverlapping_refs_since_match_loop(component_refs1, component_refs2, partial_overlap) ==
  LET both == component_refs1 # <<>> /\ component_refs2 # <<>>
  IN
  Bind(IF both THEN narray_refs(component_refs1) ELSE 0, LAMBDA narray_refs1 :
  Bind(IF both THEN narray_refs(component_refs2) ELSE 0, LAMBDA narray_refs2 :
  Bind(pop_unmatched_array_refs(component_refs1,
         IF narray_refs1 > narray_refs2 THEN narray_refs1 - narray_refs2 ELSE 0),
       LAMBDA e1 :
  Bind(pop_unmatched_array_refs(component_refs2,
         IF narray_refs2 > narray_refs1 THEN narray_refs2 - narray_refs1 ELSE 0),
       LAMBDA e2 :
  Bind(match_array_refs(e1.stack, e2.stack,
         IF narray_refs1 < narray_refs2 THEN narray_refs1 ELSE narray_refs2,
         partial_overlap, FALSE),
       LAMBDA m :
  Bind(pop_component_ref(m.stack1, m.seen_unmatched_ref_p), LAMBDA c1 :
  Bind(pop_component_ref(m.stack2, c1.seen_unmatched_ref_p), LAMBDA c2 :
      IF e1.ret = 0 \/ e2.ret = 0 THEN 0
      ELSE IF m.ret = 1 THEN 1
      ELSE IF c1.empty THEN 0
      ELSE IF c2.empty THEN 0
      ELSE LET field1 == c1.ref.op1
               field2 == c2.ref.op1
               type1  == DECL_CONTEXT(field1)
               type2  == DECL_CONTEXT(field2)
           IN  Bind(nonoverlapping_component_refs_p_1(field1, field2), LAMBDA cmp :
               IF c2.seen_unmatched_ref_p /\ TYPE_SIZE(type1) # TYPE_SIZE(type2)
               THEN -1
               ELSE IF cmp = -1 THEN -1
               ELSE IF cmp = 1 THEN 1
               ELSE nonoverlapping_refs_since_match_loop(c1.stack, c2.stack, FALSE))
  )))))))

integer_zerop(t) == t.code = "INTEGER_CST" /\ t.val = 0

tree_int_cst_equal(t1, t2) == t1.val = t2.val

nonoverlapping_refs_since_match_p(match1, ref1, match2, ref2, partial_overlap) ==
  IF \/ match1 = ref1 \/ ~handled_component_p(ref1)
     \/ match2 = ref2 \/ ~handled_component_p(ref2)
  THEN -1
  ELSE Bind(component_refs_stack(ref1, match1, <<>>), LAMBDA w1 :
       Bind(component_refs_stack(ref2, match2, <<>>), LAMBDA w2 :
       LET mem_ref1 == w1.ref.code = "MEM_REF" /\ w1.ref # match1
           mem_ref2 == w2.ref.code = "MEM_REF" /\ w2.ref # match2
       IN  IF \/ (mem_ref1 /\ ~mem_ref2 /\ ~integer_zerop(w1.ref.op1))
              \/ (mem_ref2 /\ ~mem_ref1 /\ ~integer_zerop(w2.ref.op1))
              \/ (mem_ref1 /\ mem_ref2 /\ ~tree_int_cst_equal(w1.ref.op1, w2.ref.op1))
           THEN -1
           ELSE nonoverlapping_refs_since_match_loop(w1.stack, w2.stack,
                                                     partial_overlap)))

ncr_type_uid(field) == DECL_CONTEXT(field).uid

(* The FIELD_DECLs of the COMPONENT_REFs into records on the path. *)
RECURSIVE ncr_fields(_, _)
ncr_fields(x, fields) ==
  IF handled_component_p(x)
  THEN ncr_fields(x.op0,
         IF x.code = "COMPONENT_REF"
         THEN (IF DECL_CONTEXT(x.op1).code = "RECORD_TYPE"
               THEN Append(fields, x.op1) ELSE fields)
         ELSE IF x.code \in {"VIEW_CONVERT_EXPR", "BIT_FIELD_REF"} THEN <<>>
         ELSE fields)
  ELSE fields

(* qsort with ncr_compar. *)
RECURSIVE ncr_sort(_)
ncr_sort(fields) ==
  IF Len(fields) <= 1 THEN fields
  ELSE LET m == CHOOSE i \in 1..Len(fields) :
                  \A k \in 1..Len(fields) :
                    \/ ncr_type_uid(fields[i]) < ncr_type_uid(fields[k])
                    \/ (ncr_type_uid(fields[i]) = ncr_type_uid(fields[k]) /\ i <= k)
       IN  <<fields[m]>>
             \o ncr_sort(SubSeq(fields, 1, m - 1) \o SubSeq(fields, m + 1, Len(fields)))

RECURSIVE ncr_walk(_, _, _, _)
ncr_walk(fieldsx, fieldsy, i, j) ==
  LET fieldx == fieldsx[i]
      fieldy == fieldsy[j]
  IN  IF /\ same_type_for_tbaa(DECL_CONTEXT(fieldx), DECL_CONTEXT(fieldy)) = 1
         /\ nonoverlapping_component_refs_p_1(fieldx, fieldy) = 1
      THEN TRUE
      ELSE IF ncr_type_uid(fieldx) < ncr_type_uid(fieldy)
      THEN (IF i = Len(fieldsx) THEN FALSE ELSE ncr_walk(fieldsx, fieldsy, i + 1, j))
      ELSE (IF j = Len(fieldsy) THEN FALSE ELSE ncr_walk(fieldsx, fieldsy, i, j + 1))

nonoverlapping_component_refs_p(x, y) ==
  IF \/ ~flag_strict_aliasing \/ x = NULL_TREE \/ y = NULL_TREE
     \/ ~handled_component_p(x) \/ ~handled_component_p(y)
  THEN FALSE
  ELSE Bind(ncr_fields(x, <<>>), LAMBDA fieldsx :
       Bind(ncr_fields(y, <<>>), LAMBDA fieldsy :
           IF Len(fieldsx) = 0 THEN FALSE
           ELSE IF Len(fieldsy) = 0 THEN FALSE
           ELSE IF Len(fieldsx) = 1 /\ Len(fieldsy) = 1
           THEN /\ same_type_for_tbaa(DECL_CONTEXT(fieldsx[1]),
                                      DECL_CONTEXT(fieldsy[1])) = 1
                /\ nonoverlapping_component_refs_p_1(fieldsx[1], fieldsy[1]) = 1
           ELSE ncr_walk(ncr_sort(fieldsx), ncr_sort(fieldsy), 1, 1)))

aliasing_matching_component_refs_p(match1, ref1, offset1, max_size1, match2, ref2, offset2, max_size2, partial_overlap) ==
  Bind(offset2 - get_ref_base_and_extent(match2).offset, LAMBDA o2 :
  Bind(offset1 - get_ref_base_and_extent(match1).offset, LAMBDA o1 :
  Bind(nonoverlapping_refs_since_match_p(match1, ref1, match2, ref2,
                                         partial_overlap), LAMBDA cmp :
      IF ~partial_overlap /\ ~ranges_maybe_overlap_p(o1, max_size1, o2, max_size2)
      THEN FALSE
      ELSE IF cmp = 1 \/ (cmp = -1 /\ nonoverlapping_component_refs_p(ref1, ref2))
      THEN FALSE
      ELSE TRUE)))

component_ref_to_zero_sized_trailing_array_p(ref) ==
  /\ ref.code = "COMPONENT_REF"
  /\ TREE_TYPE(ref.op1).code = "ARRAY_TYPE"
  /\ TYPE_SIZE(TREE_TYPE(ref.op1)) = 0
  /\ array_at_struct_end_p(ref)

(* The loop of aliasing_component_refs_walk: from REF outwards to its
   base, looking for a type that matches TYPE1. *)
RECURSIVE aliasing_component_refs_walk_loop(_, _, _, _, _)
aliasing_component_refs_walk_loop(ref, type1, end_struct_ref1, same_p, maybe_match) ==
  LET cmp == compare_type_sizes(type1, TREE_TYPE(ref))
      sp  == IF cmp = 0 THEN same_type_for_tbaa(TREE_TYPE(ref), type1) ELSE same_p
      mm  == maybe_match \/ (cmp = 0 /\ sp = -1)
  IN  IF /\ cmp < 0
         /\ \/ end_struct_ref1 = NULL_TREE
            \/ compare_type_sizes(TREE_TYPE(end_struct_ref1), TREE_TYPE(ref)) < 0
      THEN [ref |-> ref, same_p |-> same_p, maybe_match |-> maybe_match]
      ELSE IF cmp = 0 /\ sp = 1
      THEN [ref |-> ref, same_p |-> 1, maybe_match |-> maybe_match]
      ELSE IF ~handled_component_p(ref)
      THEN [ref |-> ref, same_p |-> sp, maybe_match |-> mm]
      ELSE aliasing_component_refs_walk_loop(ref.op0, type1, end_struct_ref1, sp, mm)

(* Returns the result with the value left in *MAYBE_MATCH. *)
aliasing_component_refs_walk(ref1, type1, base1, offset1, max_size1, end_struct_ref1, ref2, base2, offset2, max_size2, maybe_match) ==
  Bind(aliasing_component_refs_walk_loop(ref2, type1, end_struct_ref1, 0,
                                         maybe_match), LAMBDA w :
  Bind(TREE_TYPE(base1).code = "ARRAY_TYPE" /\ w.ref = base2,
       LAMBDA partial_overlap :
      IF w.same_p = 1
      THEN [res |-> IF aliasing_matching_component_refs_p(
                         base1, ref1, offset1, max_size1,
                         w.ref, ref2, offset2, max_size2, partial_overlap)
                    THEN 1 ELSE 0,
            maybe_match |-> w.maybe_match \/ partial_overlap]
      ELSE [res |-> -1, maybe_match |-> w.maybe_match]))

(* The choice of the base, of the reference the search starts at and of
   the reference to a trailing array, at the head of
   aliasing_component_refs_p. *)
RECURSIVE choose_base(_, _, _)
choose_base(base, ref, end_struct_ref) ==
  IF handled_component_p(base)
  THEN choose_base(base.op0,
         IF base.code \in {"VIEW_CONVERT_EXPR", "BIT_FIELD_REF"} THEN base.op0
         ELSE ref,
         IF component_ref_to_zero_sized_trailing_array_p(base) THEN base
         ELSE end_struct_ref)
  ELSE [base |-> base, ref |-> ref, end_struct_ref |-> end_struct_ref]

aliasing_component_refs_p(ref1_in, ref1_alias_set, base1_alias_set, offset1, max_size1, ref2_in, ref2_alias_set, base2_alias_set, offset2, max_size2) ==
  Bind(choose_base(ref1_in, ref1_in, NULL_TREE), LAMBDA b1 :
  Bind(choose_base(ref2_in, ref2_in, NULL_TREE), LAMBDA b2 :
  LET base1 == b1.base
      ref1  == b1.ref
      end_struct_ref1 == b1.end_struct_ref
      type1 == TREE_TYPE(b1.base)
      base2 == b2.base
      ref2  == b2.ref
      end_struct_ref2 == b2.end_struct_ref
      type2 == TREE_TYPE(b2.base)
  IN
  Bind(compare_type_sizes(type2, type1), LAMBDA cmp_outer :
  Bind(\/ cmp_outer >= 0
       \/ /\ end_struct_ref2 # NULL_TREE
          /\ compare_type_sizes(TREE_TYPE(end_struct_ref2), type1) >= 0,
       LAMBDA walk1 :
  Bind(IF walk1
       THEN aliasing_component_refs_walk(ref1, type1, base1, offset1, max_size1,
                                         end_struct_ref1,
                                         ref2, base2, offset2, max_size2, FALSE)
       ELSE [res |-> -1, maybe_match |-> FALSE],
       LAMBDA w1 :
  Bind(\/ cmp_outer <= 0
       \/ /\ end_struct_ref1 # NULL_TREE
          /\ compare_type_sizes(TREE_TYPE(end_struct_ref1), type1) <= 0,
       LAMBDA walk2 :
  Bind(IF walk2 /\ w1.res = -1
       THEN aliasing_component_refs_walk(ref2, type2, base2, offset2, max_size2,
                                         end_struct_ref2,
                                         ref1, base1, offset1, max_size1,
                                         w1.maybe_match)
       ELSE [res |-> -1, maybe_match |-> w1.maybe_match],
       LAMBDA w2 :
  Bind(w2.maybe_match, LAMBDA maybe_match :
      IF w1.res # -1 THEN w1.res = 1
      ELSE IF w2.res # -1 THEN w2.res = 1
      ELSE IF maybe_match THEN ~nonoverlapping_component_refs_p(ref1, ref2)
      ELSE IF /\ compare_type_sizes(TREE_TYPE(ref2), type1) >= 0
              /\ \/ end_struct_ref1 = NULL_TREE
                 \/ compare_type_sizes(TREE_TYPE(ref2),
                                       TREE_TYPE(end_struct_ref1)) >= 0
              /\ type_has_components_p(TREE_TYPE(ref2))
              /\ \/ base1_alias_set = ref2_alias_set
                 \/ alias_set_subset_of(base1_alias_set, ref2_alias_set)
      THEN TRUE
      ELSE IF /\ compare_type_sizes(TREE_TYPE(ref1), type2) >= 0
              /\ \/ end_struct_ref2 = NULL_TREE
                 \/ compare_type_sizes(TREE_TYPE(ref1),
                                       TREE_TYPE(end_struct_ref2)) >= 0
              /\ type_has_components_p(TREE_TYPE(ref1))
              /\ \/ base2_alias_set = ref1_alias_set
                 \/ alias_set_subset_of(base2_alias_set, ref1_alias_set)
      THEN TRUE
      ELSE FALSE))))))))

decl_refs_may_alias_p(ref1, base1, offset1, max_size1, size1, ref2, base2, offset2, max_size2, size2) ==
  IF compare_base_decls(base1, base2) = 0 THEN FALSE
  ELSE IF ~ranges_maybe_overlap_p(offset1, max_size1, offset2, max_size2) THEN FALSE
  ELSE IF size1 = max_size1 /\ size2 = max_size2 THEN TRUE
  ELSE IF /\ ref1 # NULL_TREE /\ ref2 # NULL_TREE
          /\ handled_component_p(ref1) /\ handled_component_p(ref2)
          /\ nonoverlapping_refs_since_match_p(NULL_TREE, ref1, NULL_TREE, ref2,
                                               FALSE) = 1
  THEN FALSE
  ELSE TRUE

indirect_ref_may_alias_decl_p(ref1, base1, offset1, max_size1, size1, ref1_alias_set, base1_alias_set, ref2, base2, offset2, max_size2, size2, ref2_alias_set, base2_alias_set, tbaa_p) ==
  LET ptr1 == base1.op0
      moff == mem_ref_offset(base1) * BITS_PER_UNIT
      ptrtype1 == TREE_TYPE(base1.op1)
      dbase2 == get_base_address(ref2)
      doffset1 == offset1
      doffset2 == IF dbase2.code \in {"MEM_REF", "TARGET_MEM_REF"}
                  THEN offset2 - mem_ref_offset(dbase2) * BITS_PER_UNIT
                  ELSE offset2
      partial_overlap == FALSE
      res == nonoverlapping_refs_since_match_p(base1, ref1, base2, ref2,
                                               partial_overlap)
  IN  IF /\ base1.code # "TARGET_MEM_REF"
         /\ ~ranges_maybe_overlap_p(offset1 + moff, -1, offset2, max_size2)
      THEN FALSE
      ELSE IF ~ptr_deref_may_alias_decl_p(ptr1, base2) THEN FALSE
      ELSE IF ~flag_strict_aliasing \/ ~tbaa_p THEN TRUE
      ELSE IF base1_alias_set = 0 \/ base2_alias_set = 0 THEN TRUE
      ELSE IF /\ base1_alias_set # base2_alias_set
              /\ ~alias_sets_conflict_p(base1_alias_set, base2_alias_set)
      THEN FALSE
      ELSE IF /\ TREE_TYPE(ptrtype1).code \notin {"UNION_TYPE", "QUAL_UNION_TYPE"}
              /\ compare_sizes(DECL_SIZE(base2), TYPE_SIZE(TREE_TYPE(ptrtype1))) < 0
      THEN FALSE
      ELSE IF ref2 = NULL_TREE THEN TRUE
      ELSE IF /\ dbase2.code \in {"MEM_REF", "TARGET_MEM_REF"}
              /\ same_type_for_tbaa(TREE_TYPE(dbase2),
                                    TREE_TYPE(TREE_TYPE(dbase2.op1))) # 1
      THEN TRUE
      ELSE IF same_type_for_tbaa(TREE_TYPE(base1), TREE_TYPE(ptrtype1)) # 1 THEN TRUE
      ELSE IF same_type_for_tbaa(TREE_TYPE(base1), TREE_TYPE(dbase2)) = 1
      THEN (IF /\ ~partial_overlap
               /\ ~ranges_maybe_overlap_p(doffset1, max_size1, doffset2, max_size2)
            THEN FALSE
            ELSE IF \/ ref1 = NULL_TREE \/ ref2 = NULL_TREE
                    \/ (~partial_overlap /\ size1 = max_size1 /\ size2 = max_size2)
            THEN TRUE
            ELSE IF res = -1 THEN ~nonoverlapping_component_refs_p(ref1, ref2)
            ELSE res = 0)
      ELSE IF /\ ref1 # NULL_TREE /\ ref2 # NULL_TREE
              /\ (handled_component_p(ref1) \/ handled_component_p(ref2))
      THEN aliasing_component_refs_p(ref1, ref1_alias_set, base1_alias_set,
                                     offset1, max_size1,
                                     ref2, ref2_alias_set, base2_alias_set,
                                     offset2, max_size2)
      ELSE TRUE

indirect_refs_may_alias_p(ref1, base1, offset1, max_size1, size1, ref1_alias_set, base1_alias_set, ref2, base2, offset2, max_size2, size2, ref2_alias_set, base2_alias_set, tbaa_p) ==
  LET ptr1 == base1.op0
      ptr2 == base2.op0
      same_ptr == /\ operand_equal_p(ptr1, ptr2)
                  /\ base1.code # "TARGET_MEM_REF" /\ base2.code # "TARGET_MEM_REF"
      moff1 == mem_ref_offset(base1) * BITS_PER_UNIT
      moff2 == mem_ref_offset(base2) * BITS_PER_UNIT
      res0 == nonoverlapping_refs_since_match_p(NULL_TREE, ref1, NULL_TREE, ref2,
                                                FALSE)
      ptrtype1 == TREE_TYPE(base1.op1)
      ptrtype2 == TREE_TYPE(base2.op1)
      partial_overlap == TREE_TYPE(ptrtype1).code = "ARRAY_TYPE"
      res == nonoverlapping_refs_since_match_p(base1, ref1, base2, ref2,
                                               partial_overlap)
  IN  IF /\ same_ptr
         /\ ~ranges_maybe_overlap_p(offset1 + moff1, max_size1,
                                    offset2 + moff2, max_size2)
      THEN FALSE
      ELSE IF same_ptr /\ size1 = max_size1 /\ size2 = max_size2 THEN TRUE
      ELSE IF same_ptr /\ ref1 # NULL_TREE /\ ref2 # NULL_TREE /\ res0 # -1
      THEN res0 = 0
      ELSE IF ~ptr_derefs_may_alias_p(ptr1, ptr2) THEN FALSE
      ELSE IF ~flag_strict_aliasing \/ ~tbaa_p THEN TRUE
      ELSE IF base1_alias_set = 0 \/ base2_alias_set = 0 THEN TRUE
      ELSE IF /\ base1_alias_set # base2_alias_set
              /\ ~alias_sets_conflict_p(base1_alias_set, base2_alias_set)
      THEN FALSE
      ELSE IF \/ same_type_for_tbaa(TREE_TYPE(base1), TREE_TYPE(ptrtype1)) # 1
              \/ same_type_for_tbaa(TREE_TYPE(base2), TREE_TYPE(ptrtype2)) # 1
      THEN TRUE
      ELSE IF /\ base1.code # "TARGET_MEM_REF" /\ base2.code # "TARGET_MEM_REF"
              /\ same_type_for_tbaa(TREE_TYPE(ptrtype1), TREE_TYPE(ptrtype2)) = 1
      THEN (IF /\ ~partial_overlap
               /\ ~ranges_maybe_overlap_p(offset1, max_size1, offset2, max_size2)
            THEN FALSE
            ELSE IF \/ ref1 = NULL_TREE \/ ref2 = NULL_TREE
                    \/ (~partial_overlap /\ size1 = max_size1 /\ size2 = max_size2)
            THEN TRUE
            ELSE IF res = -1 THEN ~nonoverlapping_component_refs_p(ref1, ref2)
            ELSE res = 0)
      ELSE IF /\ ref1 # NULL_TREE /\ ref2 # NULL_TREE
              /\ (handled_component_p(ref1) \/ handled_component_p(ref2))
      THEN aliasing_component_refs_p(ref1, ref1_alias_set, base1_alias_set,
                                     offset1, max_size1,
                                     ref2, ref2_alias_set, base2_alias_set,
                                     offset2, max_size2)
      ELSE TRUE

refs_may_alias_p_2(ref1_in, ref2_in, tbaa_p) ==
  LET base1_in == ao_ref_base(ref1_in)
      base2_in == ao_ref_base(ref2_in)
      no_memory(b) ==
        \/ b.code \in {"SSA_NAME", "CONST_DECL", "CONSTRUCTOR", "ADDR_EXPR"}
        \/ CONSTANT_CLASS_P(b)
      code_decl(b) == b.code \in {"FUNCTION_DECL", "LABEL_DECL"}
      indirect(b) == b.code \in {"MEM_REF", "TARGET_MEM_REF"}
      rbase1 == IF DECL_P(base1_in)
                THEN (IF ref1_in.ref # NULL_TREE THEN get_base_address(ref1_in.ref)
                      ELSE NULL_TREE)
                ELSE base1_in
      rbase2 == IF DECL_P(base2_in)
                THEN (IF ref2_in.ref # NULL_TREE THEN get_base_address(ref2_in.ref)
                      ELSE NULL_TREE)
                ELSE base2_in
      (* Canonicalize the pointer-vs-decl case. *)
      swap  == indirect(base1_in) /\ DECL_P(base2_in)
      ref1  == IF swap THEN ref2_in ELSE ref1_in
      ref2  == IF swap THEN ref1_in ELSE ref2_in
      base1 == ref1.base
      base2 == ref2.base
      var1_p == DECL_P(base1)
      ind1_p == indirect(base1)
      ind2_p == indirect(base2)
  IN  IF no_memory(base1_in) \/ no_memory(base2_in) THEN FALSE
      ELSE IF code_decl(base1_in) \/ code_decl(base2_in) THEN TRUE
      ELSE IF ref1_in.volatile_p /\ ref2_in.volatile_p THEN TRUE
      ELSE IF DECL_P(base1_in) /\ DECL_P(base2_in)
      THEN decl_refs_may_alias_p(ref1_in.ref, base1_in, ref1_in.offset,
                                 ref1_in.max_size, ref1_in.size,
                                 ref2_in.ref, base2_in, ref2_in.offset,
                                 ref2_in.max_size, ref2_in.size)
      ELSE IF /\ rbase1 # NULL_TREE /\ rbase2 # NULL_TREE
              /\ indirect(base1_in) /\ indirect(base2_in)
              /\ MR_DEPENDENCE_CLIQUE(base1_in) = MR_DEPENDENCE_CLIQUE(base2_in)
              /\ MR_DEPENDENCE_BASE(base1_in) # MR_DEPENDENCE_BASE(base2_in)
      THEN FALSE
      ELSE IF /\ tbaa_p /\ flag_strict_aliasing
              /\ ~alias_sets_conflict_p(ao_ref_alias_set(ref1), ao_ref_alias_set(ref2))
      THEN FALSE
      ELSE IF \/ (base2.op0.code = "SSA_NAME" /\ base2.op0.readonly)
              \/ (ind1_p /\ base1.op0.code = "SSA_NAME" /\ base1.op0.readonly)
      THEN FALSE
      ELSE IF var1_p /\ ind2_p
      THEN indirect_ref_may_alias_decl_p(
             ref2.ref, base2, ref2.offset, ref2.max_size, ref2.size,
             ao_ref_alias_set(ref2), ao_ref_base_alias_set(ref2),
             ref1.ref, base1, ref1.offset, ref1.max_size, ref1.size,
             ao_ref_alias_set(ref1), ao_ref_base_alias_set(ref1), tbaa_p)
      ELSE indirect_refs_may_alias_p(
             ref1.ref, base1, ref1.offset, ref1.max_size, ref1.size,
             ao_ref_alias_set(ref1), ao_ref_base_alias_set(ref1),
             ref2.ref, base2, ref2.offset, ref2.max_size, ref2.size,
             ao_ref_alias_set(ref2), ao_ref_base_alias_set(ref2), tbaa_p)

(* refs_may_alias_p_1 that takes an SSA name base for memory that may
   alias anything. *)
refs_may_alias_p_1_ssa_name_memory(ref1, ref2, tbaa_p) ==
  IF ao_ref_base(ref1).code = "SSA_NAME" \/ ao_ref_base(ref2).code = "SSA_NAME"
  THEN TRUE
  ELSE refs_may_alias_p_2(ref1, ref2, tbaa_p)

refs_may_alias_p_1(ref1, ref2, tbaa_p) == refs_may_alias_p_2(ref1, ref2, tbaa_p)

(* ------------------------------------------------------------------ *)
(* Two references, the storage they name, and the oracle's answers.    *)
(* ------------------------------------------------------------------ *)

var_a == build_decl("a", struct_A, TRUE)

var_b == build_decl("b", struct_B, TRUE)

var_f == build_decl("f", float_type_node, FALSE)

(* int *p; struct Z *q; struct A *r; struct B *s; int i.  The points-to
   sets of r and s are known. *)
ptr_p == make_ssa_name("p_1", build_pointer_type(integer_type_node), FALSE, {})

ptr_q == make_ssa_name("q_2", build_pointer_type(struct_Z), FALSE, {})

ptr_r == make_ssa_name("r_3", build_pointer_type(struct_A), TRUE, {"a", "b"})

ptr_s == make_ssa_name("s_4", build_pointer_type(struct_B), TRUE, {"b"})

idx_i == make_ssa_name("i_5", integer_type_node, FALSE, {})

fn_g == build_fn_decl("g")

label_l == create_artificial_label("l")

string_abc == build_string("abc")

(* The references queried: variables and their fields, dereferences
   and fields reached through pointers, elements of the trailing array
   of struct Z, a register, a constant, a function and a label, and
   accesses made through volatile lvalues to a field of each variable, to
   what p points to, to a string constant and to the code of a function. *)
Refs ==
  {var_a, build_component_ref(var_a, field_i), build_component_ref(var_a, field_j),
   build_component_ref(build_component_ref(var_b, field_a), field_j),
   build_component_ref(var_b, field_k), var_f,
   build_mem_ref(ptr_p, 0), build_mem_ref(ptr_p, 4),
   build_mem_ref(ptr_r, 0),
   build_component_ref(build_mem_ref(ptr_r, 0), field_i),
   build_component_ref(build_mem_ref(ptr_r, 0), field_j),
   build_component_ref(build_component_ref(build_mem_ref(ptr_s, 0), field_a), field_j),
   build_component_ref(build_mem_ref(ptr_s, 0), field_k),
   build_array_ref(build_component_ref(build_mem_ref(ptr_q, 0), field_array), idx_i),
   idx_i, integer_zero_node, fn_g, label_l,
   build_volatile(build_component_ref(var_a, field_i)),
   build_volatile(build_component_ref(var_b, field_k)),
   build_volatile(build_mem_ref(ptr_p, 0)),
   build_volatile(build_mem_ref(build_fold_addr_expr(string_abc), 0)),
   build_volatile(build_mem_ref(build_fold_addr_expr(fn_g), 0))}
  \cup {build_array_ref(build_component_ref(build_mem_ref(ptr_q, 0), field_array),
                        integer_cst(integer_type_node, k)) : k \in 0..MaxIndex}

(* The simulated storage, in bytes: a at 0, b at 8, f at 20 and a block
   of MaxIndex + 1 ints at 24. *)
layout == [a |-> 0, b |-> 8, f |-> 20, heap |-> 24]

heap_ints == {layout.heap + 4 * k : k \in 0..MaxIndex}

objects ==
  {[lo |-> 0, hi |-> 8], [lo |-> 8, hi |-> 20], [lo |-> 20, hi |-> 24],
   [lo |-> layout.heap, hi |-> layout.heap + 4 * (MaxIndex + 1)]}

(* The values a pointer of each type may hold: the address of an object
   or subobject of the type pointed to; the index is within the block. *)
Memories ==
  [p_1 : {0, 4, 8, 12, 16} \cup heap_ints, q_2 : {layout.heap},
   r_3 : {0, 8}, s_4 : {8}, i_5 : 0..MaxIndex]

RECURSIVE ref_address(_, _)
ref_address(ref, mem) ==
  IF ref.code = "COMPONENT_REF" THEN ref_address(ref.op0, mem) + ref.op1.bitpos
  ELSE IF ref.code = "ARRAY_REF"
  THEN ref_address(ref.op0, mem)
         + (IF ref.op1.code = "INTEGER_CST" THEN ref.op1.val ELSE mem[ref.op1.name])
           * TYPE_SIZE(TREE_TYPE(ref))
  ELSE IF ref.code = "MEM_REF"
  THEN (mem[ref.op0.name] + mem_ref_offset(ref)) * BITS_PER_UNIT
  ELSE layout[ref.name] * BITS_PER_UNIT

pointer_based(ref) ==
  get_base_address(ref).code = "MEM_REF" /\ get_base_address(ref).op0.code = "SSA_NAME"

has_storage(ref) == get_base_address(ref).code = "VAR_DECL" \/ pointer_based(ref)

(* The names of the pointer and of the index a reference uses. *)
RECURSIVE names_used(_)
names_used(ref) ==
  IF ref.code = "ARRAY_REF"
  THEN (IF ref.op1.code = "SSA_NAME" THEN {ref.op1.name} ELSE {}) \cup names_used(ref.op0)
  ELSE IF ref.code = "COMPONENT_REF" THEN names_used(ref.op0)
  ELSE IF ref.code = "MEM_REF" /\ ref.op0.code = "SSA_NAME" THEN {ref.op0.name}
  ELSE {}

(* The access stays within the object its pointer points into. *)
valid_access(ref, mem) ==
  \/ ~pointer_based(ref)
  \/ \E o \in objects :
       LET ptr  == mem[get_base_address(ref).op0.name] * BITS_PER_UNIT
           addr == ref_address(ref, mem)
       IN  /\ o.lo * BITS_PER_UNIT <= ptr /\ ptr < o.hi * BITS_PER_UNIT
           /\ o.lo * BITS_PER_UNIT <= addr
           /\ addr + TYPE_SIZE(TREE_TYPE(ref)) <= o.hi * BITS_PER_UNIT

(* The least memory: the value of the names no reference uses. *)
least_memory == [p_1 |-> 0, q_2 |-> layout.heap, r_3 |-> 0, s_4 |-> 8, i_5 |-> 0]

storage_overlap(ref1, ref2, mem) ==
  /\ has_storage(ref1) /\ has_storage(ref2)
  /\ LET a1 == ref_address(ref1, mem)
         a2 == ref_address(ref2, mem)
         s1 == TYPE_SIZE(TREE_TYPE(ref1))
         s2 == TYPE_SIZE(TREE_TYPE(ref2))
     IN  s1 > 0 /\ s2 > 0 /\ a1 < a2 + s2 /\ a2 < a1 + s1

AliasInit ==
  /\ flag_strict_aliasing \in BOOLEAN
  /\ tbaa \in BOOLEAN
  /\ ao1 \in {ao_ref_init(x) : x \in Refs}
  /\ ao2 \in {ao_ref_init(x) : x \in Refs}
  /\ memory \in {m \in Memories :
                   /\ valid_access(ao1.ref, m) /\ valid_access(ao2.ref, m)
                   /\ \A n \in DOMAIN m :
                        n \notin names_used(ao1.ref) \cup names_used(ao2.ref)
                          => m[n] = least_memory[n]}
  /\ answers = <<>>
  /\ alias_pc = "ref1_ref2"
  (* The other components are not in use. *)
  /\ type = NULL_TREE /\ this = set_undefined /\ op = "none"
  /\ req = set_undefined /\ other = set_undefined /\ prev = set_undefined
  /\ expr_type = NULL_TREE /\ opnd0 = set_undefined /\ opnd1 = set_undefined
  /\ expr_code = "ERROR_MARK" /\ expr_vr = set_undefined /\ arith_pc = "none"
  /\ ssa = <<>> /\ clobber = {} /\ lookup = <<>> /\ translate = "absent" /\ limit = 0
  /\ budget = 0 /\ vuse = NULL /\ visited = {} /\ translated = FALSE /\ result = NULL
  /\ frames = <<>> /\ ret = <<>> /\ walk_pc = "none" /\ queries = 0 /\ looked = 0
  /\ cfun = <<>> /\ vr_value = <<>> /\ simulate_again = {} /\ executable = {}
  /\ cfg_worklist = {} /\ ssa_worklist = {} /\ moves = {} /\ solve_pc = "none"
  /\ flag_errno_math = FALSE /\ kill_stmt = NULL_TREE /\ kill_ref = NULL_TREE /\ kill_tbaa = FALSE
  /\ kills = NULL /\ clobbers = NULL /\ kill_pc = "none"
  /\ vdef_ref = NULL /\ vdef_walker = NULL /\ vdef_limit = 0 /\ vdef_supplied = "absent"
  /\ vdef_visited = <<>> /\ vdef_frames = <<>> /\ cnt = 0 /\ function_entry_reached = FALSE
  /\ walked = <<>> /\ offered = <<>> /\ vdef_ret = NULL /\ vdef_pc = "none"
  /\ fun = <<>> /\ value_hash = <<>> /\ asserts_for = <<>> /\ need_assert_for = {}
  /\ inserted = <<>> /\ assert_pc = "none"
  /\ pplus_type = NULL_TREE /\ flag_delete_null_pointer_checks = FALSE /\ pplus_vr0 = set_undefined
  /\ pplus_vr1 = set_undefined /\ pplus_vr = set_undefined /\ pplus_pc = "none"

(* refs_may_alias_p_1 (&ao1, &ao2, tbaa). *)
RefsMayAlias ==
  /\ alias_pc = "ref1_ref2"
  /\ answers' = Append(answers, refs_may_alias_p_1(ao1, ao2, tbaa))
  /\ alias_pc' = "ref2_ref1"
  /\ UNCHANGED <<flag_strict_aliasing, ao1, ao2, tbaa, memory>>
  /\ UNCHANGED aliasRest

(* refs_may_alias_p_1 (&ao2, &ao1, tbaa). *)
RefsMayAliasSwapped ==
  /\ alias_pc = "ref2_ref1"
  /\ answers' = Append(answers, refs_may_alias_p_1(ao2, ao1, tbaa))
  /\ alias_pc' = "done"
  /\ UNCHANGED <<flag_strict_aliasing, ao1, ao2, tbaa, memory>>
  /\ UNCHANGED aliasRest

AliasNext == RefsMayAlias \/ RefsMayAliasSwapped

SpecAlias == AliasInit /\ [][AliasNext]_vars

(* ------------------------------------------------------------------ *)
(* A statement against a reference: kill and clobber.                  *)
(* ------------------------------------------------------------------ *)

(* MEM_REF [(ptrtype) ptr + off]: an access through PTR made with
   another pointer type. *)
build_mem_ref_as(ptr, ptrtype, off) ==
  [code |-> "MEM_REF", type |-> TREE_TYPE(ptrtype), op0 |-> ptr,
   op1 |-> integer_cst(ptrtype, off), clique |-> 0, base |-> 0]

(* The pointer calloc returns, pointing to nothing else, and a va_list. *)
ptr_c == make_ssa_name("c_7", build_pointer_type(integer_type_node), TRUE, {})

var_ap == build_decl("ap", struct_A, TRUE)

(* A store, possibly throwing within the function; a load into a
   register; a call with its arguments, the value it is assigned to and
   the variables it may clobber; an asm. *)
gimple_build_assign(lhs, throws) ==
  [code |-> "GIMPLE_ASSIGN", lhs |-> lhs, single |-> TRUE, throws |-> throws]

gimple_build_call(fn, arguments, lhs, clobbered) ==
  [code |-> "GIMPLE_CALL", fndecl |-> fn, args |-> arguments, lhs |-> lhs,
   single |-> FALSE, throws |-> FALSE, flags |-> {},
   clobber_set |-> [null |-> FALSE, vars |-> clobbered]]

gimple_build_asm == [code |-> "GIMPLE_ASM", lhs |-> NULL_TREE, single |-> FALSE, throws |-> FALSE]

is_gimple_call(s) == s.code = "GIMPLE_CALL"

gimple_assign_single_p(s) == s.code = "GIMPLE_ASSIGN" /\ s.single

gimple_has_lhs(s) == s.code \in {"GIMPLE_ASSIGN", "GIMPLE_CALL"} /\ s.lhs # NULL_TREE

gimple_get_lhs(s) == s.lhs

stmt_can_throw_internal(s) == s.throws

(* The builtins whose first argument is the destination written and
   whose third is the length. *)
mem_builtins ==
  {"BUILT_IN_MEMCPY", "BUILT_IN_MEMPCPY", "BUILT_IN_MEMMOVE", "BUILT_IN_MEMSET",
   "BUILT_IN_MEMCPY_CHK", "BUILT_IN_MEMPCPY_CHK", "BUILT_IN_MEMMOVE_CHK",
   "BUILT_IN_MEMSET_CHK", "BUILT_IN_STRNCPY", "BUILT_IN_STPNCPY"}

(* operand_equal_p (arg0, arg1, flags) on references: with
   OEP_ADDRESS_OF the addresses are compared, the types of the accesses
   are not. *)
RECURSIVE operand_equal_p_flags(_, _, _)
operand_equal_p_flags(arg0, arg1, address_of) ==
  IF arg0.code # arg1.code THEN FALSE
  ELSE IF arg0.code = "INTEGER_CST" THEN arg0.val = arg1.val
  ELSE IF arg0.code = "COMPONENT_REF"
  THEN arg0.op1 = arg1.op1 /\ operand_equal_p_flags(arg0.op0, arg1.op0, address_of)
  ELSE IF arg0.code = "ARRAY_REF"
  THEN /\ operand_equal_p_flags(arg0.op0, arg1.op0, address_of)
       /\ operand_equal_p_flags(arg0.op1, arg1.op1, FALSE)
  ELSE IF arg0.code = "MEM_REF"
  THEN /\ address_of
          \/ /\ TYPE_SIZE(TREE_TYPE(arg0)) = TYPE_SIZE(TREE_TYPE(arg1))
             /\ get_alias_set(arg0) = get_alias_set(arg1)
             /\ TREE_TYPE(arg0).uid = TREE_TYPE(arg1).uid
       /\ arg0.op0 = arg1.op0
       /\ mem_ref_offset(arg0) = mem_ref_offset(arg1)
  ELSE arg0 = arg1

known_size_p(size) == size >= 0

(* known_subrange_p: [pos1, pos1 + size1) lies within [pos2, pos2 + size2). *)
known_subrange_p(pos1, size1, pos2, size2) ==
  /\ size1 > 0 /\ size2 > 0
  /\ pos1 >= pos2 /\ pos1 + size1 <= pos2 + size2

SSA_VAR_P(t) == t.code \in {"VAR_DECL", "PARM_DECL", "RESULT_DECL", "SSA_NAME"}

pt_solution_singleton_or_null_p(pi) == Cardinality(pi.vars) = 1

same_addr_size_stores_p(base1, offset1, size1, max_size1, base2, offset2, size2, max_size2) ==
  LET base1_obj_p    == SSA_VAR_P(base1)
      base2_obj_p    == SSA_VAR_P(base2)
      obj            == IF base1_obj_p THEN base1 ELSE base2
      base1_memref_p == base1.code = "MEM_REF"
      base2_memref_p == base2.code = "MEM_REF"
      memref         == IF base1_memref_p THEN base1 ELSE base2
      ptr            == memref.op0
  IN  IF offset1 # 0 \/ offset2 # 0 THEN FALSE
      ELSE IF base1_obj_p = base2_obj_p THEN FALSE
      ELSE IF base1_memref_p = base2_memref_p THEN FALSE
      ELSE IF \/ ~known_size_p(max_size1) \/ ~known_size_p(max_size2)
              \/ ~known_size_p(size1) \/ ~known_size_p(size2)
      THEN FALSE
      ELSE IF max_size1 # size1 \/ max_size2 # size2 THEN FALSE
      ELSE IF size1 # size2 THEN FALSE
      ELSE IF mem_ref_offset(memref) # 0 THEN FALSE
      ELSE IF ptr.code # "SSA_NAME" THEN FALSE
      ELSE IF ptr.ptr_info.null \/ ~pt_solution_singleton_or_null_p(ptr.ptr_info) THEN FALSE
      ELSE IF obj.code = "SSA_NAME" \/ obj.name \notin ptr.ptr_info.vars THEN FALSE
      ELSE DECL_SIZE(obj) = size1

(* ao_ref_init_from_ptr_and_size: SIZE in bytes, NULL_TREE when unknown.
   The pointers passed are parameters and addresses, not names defined
   by an address or a pointer addition. *)
ao_ref_init_from_ptr_and_size(ptr, size) ==
  LET bits == IF size # NULL_TREE /\ size.code = "INTEGER_CST" /\ size.val >= 0
              THEN size.val * BITS_PER_UNIT ELSE -1
      e    == get_ref_base_and_extent(ptr.op0)
  IN  IF ptr.code = "ADDR_EXPR"
      THEN [ref |-> NULL_TREE, base |-> e.base, offset |-> e.offset, size |-> bits,
            max_size |-> bits, volatile_p |-> FALSE]
      ELSE [ref |-> NULL_TREE,
            base |-> [code |-> "MEM_REF", type |-> char_type_node, op0 |-> ptr,
                      op1 |-> integer_cst(TREE_TYPE(ptr), 0), clique |-> 0, base |-> 0],
            offset |-> 0, size |-> bits, max_size |-> bits, volatile_p |-> FALSE]

(* ptr_deref_may_alias_ref_p_1 that intersects the points-to sets of
   the two pointers also when they are one pointer. *)
ptr_deref_may_alias_ref_p_1_points_to(ptr, r) ==
  LET base == ao_ref_base(r)
  IN  IF base.code \in {"MEM_REF", "TARGET_MEM_REF"}
      THEN (IF ptr.code # "SSA_NAME" \/ base.op0.code # "SSA_NAME" THEN TRUE
            ELSE IF ptr.ptr_info.null \/ base.op0.ptr_info.null THEN TRUE
            ELSE pt_solutions_intersect(ptr.ptr_info, base.op0.ptr_info))
      ELSE IF DECL_P(base) THEN ptr_deref_may_alias_decl_p(ptr, base)
      ELSE TRUE

ptr_deref_may_alias_ref_p_1(ptr, r) ==
  LET base == ao_ref_base(r)
  IN  IF base.code \in {"MEM_REF", "TARGET_MEM_REF"}
      THEN ptr_derefs_may_alias_p(ptr, base.op0)
      ELSE IF DECL_P(base) THEN ptr_deref_may_alias_decl_p(ptr, base)
      ELSE TRUE

(* targetm.ref_may_alias_errno: an int reached through a pointer that
   may point to non-local memory. *)
ref_may_alias_errno(r) ==
  /\ r.ref # NULL_TREE /\ TREE_TYPE(r.ref) = integer_type_node
  /\ r.base.code = "MEM_REF" /\ r.base.op0.code = "SSA_NAME"
  /\ r.base.op0.ptr_info.null

(* The outermost handled component of the access that equals the
   outermost one of LHS, or the base when there is none; with it the
   innermost array reference dropped on the way. *)
RECURSIVE drop_handled_components(_, _, _)
drop_handled_components(lhs, base, innermost_dropped_array_ref) ==
  LET lhs0  == IF handled_component_p(lhs)
               THEN [lhs EXCEPT !.op0 = integer_zero_node] ELSE lhs
      base0 == [base EXCEPT !.op0 = integer_zero_node]
  IN  IF ~handled_component_p(base)
      THEN [base |-> base, dropped |-> innermost_dropped_array_ref]
      ELSE IF operand_equal_p_flags(lhs0, base0, FALSE)
      THEN [base |-> base, dropped |-> innermost_dropped_array_ref]
      ELSE drop_handled_components(lhs, base.op0,
             IF base.code \in {"ARRAY_REF", "ARRAY_RANGE_REF"}
             THEN base ELSE innermost_dropped_array_ref)

(* The part of stmt_kills_ref_p for a statement that assigns to LHS:
   "true" and "false" are returned, "next" goes on to the calls. *)
lhs_kills_ref_p(lhs, r) ==
  LET c       == drop_handled_components(lhs, r.ref, NULL_TREE)
      literal == /\ r.ref # NULL_TREE
                 /\ \/ c.dropped = NULL_TREE
                    \/ ~array_at_struct_end_p(c.dropped.op0)
                 /\ \/ lhs = c.base
                    \/ /\ TYPE_SIZE(TREE_TYPE(lhs)) = TYPE_SIZE(TREE_TYPE(c.base))
                       /\ operand_equal_p_flags(lhs, c.base, TRUE)
      e       == get_ref_base_and_extent(lhs)
      both_mem == /\ e.base.code = "MEM_REF" /\ r.base.code = "MEM_REF"
                  /\ e.base.op0 = r.base.op0
      offset  == IF e.base # r.base /\ both_mem
                 THEN mem_ref_offset(e.base) * BITS_PER_UNIT + e.offset ELSE e.offset
      ref_offset == IF e.base # r.base /\ both_mem
                    THEN mem_ref_offset(r.base) * BITS_PER_UNIT + r.offset ELSE r.offset
      size    == IF e.base # r.base /\ ~both_mem THEN -1 ELSE e.size
  IN  IF literal THEN "true"
      ELSE IF ~known_size_p(r.max_size) THEN "false"
      ELSE IF /\ e.base # r.base
              /\ same_addr_size_stores_p(e.base, e.offset, e.size, e.max_size,
                                         r.base, r.offset, r.size, r.max_size)
      THEN "true"
      ELSE IF /\ size = e.max_size
              /\ known_subrange_p(ref_offset, r.max_size, offset, size)
      THEN "true"
      ELSE "next"

(* The part of stmt_kills_ref_p for a call to a builtin. *)
call_kills_ref_p(s, r) ==
  LET calloc == s.fndecl = "BUILT_IN_CALLOC"
      dest   == IF calloc THEN s.lhs ELSE s.args[1]
      len    == IF calloc
                THEN (IF s.args[1].code = "INTEGER_CST" /\ s.args[2].code = "INTEGER_CST"
                      THEN integer_cst(TREE_TYPE(s.args[1]), s.args[1].val * s.args[2].val)
                      ELSE NULL_TREE)
                ELSE s.args[3]
      dref   == ao_ref_init_from_ptr_and_size(dest, len)
      mem    == dref.base.code = "MEM_REF"
      base   == IF mem THEN dref.base.op0 ELSE dref.base
      rbase  == IF mem THEN r.base.op0 ELSE r.base
      offset  == IF mem THEN dref.offset + mem_ref_offset(dref.base) * BITS_PER_UNIT
                 ELSE dref.offset
      roffset == IF mem THEN r.offset + mem_ref_offset(r.base) * BITS_PER_UNIT
                 ELSE r.offset
  IN  IF s.fndecl = "BUILT_IN_FREE"
      THEN r.base.code = "MEM_REF" /\ r.base.op0 = s.args[1]
      ELSE IF s.fndecl \in mem_builtins \cup {"BUILT_IN_CALLOC"}
      THEN IF ~known_size_p(r.max_size) THEN FALSE
           ELSE IF len = NULL_TREE \/ len.code # "INTEGER_CST" THEN FALSE
           ELSE IF ~known_size_p(dref.size) THEN FALSE
           ELSE IF mem /\ r.base.code # "MEM_REF" THEN FALSE
           ELSE /\ base = rbase
                /\ known_subrange_p(roffset, r.max_size, offset, len.val * BITS_PER_UNIT)
      ELSE IF s.fndecl = "BUILT_IN_VA_END"
      THEN s.args[1].code = "ADDR_EXPR" /\ s.args[1].op0 = r.base
      ELSE FALSE

(* The nodes of a tree from T down its operands 0. *)
RECURSIVE tree_spine(_)
tree_spine(t) ==
  IF "op0" \in DOMAIN t THEN <<t>> \o tree_spine(t.op0) ELSE <<t>>

(* The trees of the statement's left-hand side and of the reference in
   memory: the nodes of each, and for each node what its operand 0 holds
   now, its own operand ("child") or integer_zero_node ("zero").  When
   the two trees are one the nodes of the reference stand for both. *)
tree_memory(lhs, ref) ==
  [spine |-> [lhs |-> tree_spine(lhs), ref |-> tree_spine(ref)],
   slots |-> [lhs |-> [i \in 1..Len(tree_spine(lhs)) |-> "child"],
              ref |-> [i \in 1..Len(tree_spine(ref)) |-> "child"]]]

(* The tree a pointer into the memory denotes now. *)
RECURSIVE tree_at(_, _, _)
tree_at(spine, slots, i) ==
  IF i >= Len(spine) THEN spine[Len(spine)]
  ELSE [spine[i] EXCEPT !.op0 = IF slots[i] = "zero" THEN integer_zero_node
                                 ELSE tree_at(spine, slots, i + 1)]

deref(M, ptr) == tree_at(M.spine[ptr.tree], M.slots[ptr.tree], ptr.i)

(* TREE_OPERAND (ptr, 0), read and written. *)
TREE_OPERAND_0(M, ptr) == M.slots[ptr.tree][ptr.i]

set_TREE_OPERAND_0(M, ptr, value) == [M EXCEPT !.slots[ptr.tree][ptr.i] = value]

(* The do-while loop of stmt_kills_ref_p from BASE on: operand 0 of the
   component is saved, set to zero for the comparison with LHS and
   restored; the memory after the loop. *)
RECURSIVE compare_outermost_components(_, _, _)
compare_outermost_components(M, lhs, base) ==
  LET saved_base0 == TREE_OPERAND_0(M, base)
      zeroed      == set_TREE_OPERAND_0(M, base, "zero")
      res         == operand_equal_p_flags(deref(zeroed, lhs), deref(zeroed, base), FALSE)
      restored    == set_TREE_OPERAND_0(zeroed, base, saved_base0)
      below       == [base EXCEPT !.i = @ + 1]
  IN  IF res THEN restored
      ELSE IF saved_base0 = "child" /\ handled_component_p(deref(restored, below))
      THEN compare_outermost_components(restored, lhs, below)
      ELSE restored

(* The end of the comparison without the restoring of operand 0 of LHS. *)
restore_lhs_forgotten(M, lhs, saved_lhs0) == M

(* if (saved_lhs0) TREE_OPERAND (lhs, 0) = saved_lhs0. *)
restore_lhs(M, lhs, saved_lhs0) ==
  IF saved_lhs0 # <<>> THEN set_TREE_OPERAND_0(M, lhs, saved_lhs0[1]) ELSE M

(* The statement and the reference as stmt_kills_ref_p leaves them;
   SHARED when the left-hand side of the statement and the reference are
   one tree. *)
trees_after_stmt_kills_ref_p(s, ref, shared) ==
  LET lhs    == gimple_get_lhs(s)
      lhsp   == [tree |-> IF shared THEN "ref" ELSE "lhs", i |-> 1]
      basep  == [tree |-> "ref", i |-> 1]
      M0     == tree_memory(lhs, ref)
      saved_lhs0 == IF handled_component_p(lhs) THEN <<TREE_OPERAND_0(M0, lhsp)>> ELSE <<>>
      M1     == IF handled_component_p(lhs) THEN set_TREE_OPERAND_0(M0, lhsp, "zero") ELSE M0
      M2     == restore_lhs(compare_outermost_components(M1, lhsp, basep), lhsp, saved_lhs0)
  IN  IF /\ gimple_has_lhs(s)
         /\ TREE_CODE(lhs) # "SSA_NAME"
         /\ ~stmt_can_throw_internal(s)
         /\ ref # NULL_TREE
         /\ handled_component_p(ref)
      THEN [stmt |-> [s EXCEPT !.lhs = deref(M2, lhsp)], ref |-> deref(M2, basep)]
      ELSE [stmt |-> s, ref |-> ref]

(* stmt_kills_ref_p (stmt, ref). *)
stmt_kills_ref_p(s, ref) ==
  LET r       == ao_ref_init(ref)
      has_lhs == /\ gimple_has_lhs(s)
                 /\ TREE_CODE(gimple_get_lhs(s)) # "SSA_NAME"
                 /\ ~stmt_can_throw_internal(s)
      by_lhs  == IF has_lhs THEN lhs_kills_ref_p(gimple_get_lhs(s), r) ELSE "next"
  IN  IF by_lhs # "next" THEN by_lhs = "true"
      ELSE is_gimple_call(s) /\ call_kills_ref_p(s, r)

(* call_may_clobber_ref_p_1: the calls are neither pure nor const, the
   variables automatic and written to. *)
call_may_clobber_ref_p_1(call, r) ==
  LET base == ao_ref_base(r)
      size == IF Len(call.args) = 3 /\ call.fndecl # "BUILT_IN_STRNCAT"
              THEN call.args[3] ELSE NULL_TREE
  IN  IF call.flags \cap {"ECF_PURE", "ECF_CONST", "ECF_LOOPING_CONST_OR_PURE", "ECF_NOVOPS"} # {}
      THEN FALSE
      ELSE IF base.code = "SSA_NAME" \/ CONSTANT_CLASS_P(base) THEN FALSE
      ELSE IF r.volatile_p THEN TRUE
      ELSE IF DECL_P(base) /\ ~may_be_aliased(base) THEN FALSE
      ELSE IF call.fndecl \in mem_builtins
      THEN refs_may_alias_p_1(ao_ref_init_from_ptr_and_size(call.args[1], size), r, FALSE)
      ELSE IF call.fndecl \in {"BUILT_IN_MALLOC", "BUILT_IN_CALLOC"}
      THEN flag_errno_math /\ ref_may_alias_errno(r)
      ELSE IF call.fndecl \in {"BUILT_IN_FREE", "BUILT_IN_VA_END"}
      THEN ptr_deref_may_alias_ref_p_1(call.args[1], r)
      ELSE IF DECL_P(base) THEN pt_solution_includes(call.clobber_set, base)
      ELSE IF base.code \in {"MEM_REF", "TARGET_MEM_REF"} /\ base.op0.code = "SSA_NAME"
      THEN (IF base.op0.ptr_info.null THEN TRUE
            ELSE pt_solutions_intersect(call.clobber_set, base.op0.ptr_info))
      ELSE TRUE

(* stmt_may_clobber_ref_p (stmt, ref, tbaa_p). *)
stmt_may_clobber_ref_p(s, ref, tbaa_p) ==
  LET r == ao_ref_init(ref)
  IN  IF is_gimple_call(s)
      THEN \/ /\ s.lhs # NULL_TREE /\ TREE_CODE(s.lhs) # "SSA_NAME"
              /\ refs_may_alias_p_1(r, ao_ref_init(s.lhs), tbaa_p)
           \/ call_may_clobber_ref_p_1(s, r)
      ELSE IF gimple_assign_single_p(s)
      THEN /\ TREE_CODE(s.lhs) # "SSA_NAME"
           /\ refs_may_alias_p_1(r, ao_ref_init(s.lhs), tbaa_p)
      ELSE s.code = "GIMPLE_ASM"

(* The references asked about. *)
KillRefs ==
  {var_a, build_component_ref(var_a, field_i), build_component_ref(var_a, field_j),
   var_b, build_component_ref(build_component_ref(var_b, field_a), field_j),
   build_component_ref(var_b, field_k),
   build_mem_ref(ptr_p, 0), build_mem_ref(ptr_p, 4),
   build_mem_ref_as(ptr_p, build_pointer_type(float_type_node), 0),
   build_mem_ref(ptr_r, 0), build_component_ref(build_mem_ref(ptr_r, 0), field_j),
   build_mem_ref(ptr_s, 0), build_component_ref(build_mem_ref(ptr_s, 0), field_k),
   build_mem_ref(ptr_c, 0),
   build_array_ref(build_component_ref(build_mem_ref(ptr_q, 0), field_array), idx_i),
   build_array_ref(build_component_ref(build_mem_ref(ptr_q, 0), field_array),
                   integer_zero_node),
   var_ap, build_volatile(build_component_ref(var_a, field_i)), idx_i}

size_int(n) == integer_cst(integer_type_node, n)

(* The statements: a store to each reference, a store that may throw, a
   load, calls to free, memset, memcpy, calloc and va_end, a call of an
   unknown function that may clobber a, the same with its value stored to
   a, and an asm. *)
KillStmts ==
  {gimple_build_assign(lhs, FALSE) : lhs \in KillRefs}
  \cup {gimple_build_assign(build_component_ref(var_a, field_i), TRUE),
        gimple_build_call("BUILT_IN_FREE", <<ptr_p>>, NULL_TREE, {}),
        gimple_build_call("BUILT_IN_FREE", <<ptr_c>>, NULL_TREE, {}),
        gimple_build_call("BUILT_IN_MEMSET", <<ptr_p, integer_zero_node, size_int(4)>>, NULL_TREE, {}),
        gimple_build_call("BUILT_IN_MEMSET", <<ptr_p, integer_zero_node, size_int(8)>>, NULL_TREE, {}),
        gimple_build_call("BUILT_IN_MEMSET", <<ptr_p, integer_zero_node, idx_i>>, NULL_TREE, {}),
        gimple_build_call("BUILT_IN_MEMSET", <<ptr_r, integer_zero_node, size_int(8)>>, NULL_TREE, {}),
        gimple_build_call("BUILT_IN_MEMSET", <<build_fold_addr_expr(var_a), integer_zero_node, size_int(8)>>, NULL_TREE, {}),
        gimple_build_call("BUILT_IN_MEMCPY", <<build_fold_addr_expr(build_component_ref(var_b, field_k)), ptr_p, size_int(4)>>, NULL_TREE, {}),
        gimple_build_call("BUILT_IN_CALLOC", <<size_int(1), size_int(4)>>, ptr_c, {}),
        gimple_build_call("BUILT_IN_CALLOC", <<idx_i, size_int(4)>>, ptr_c, {}),
        gimple_build_call("BUILT_IN_VA_END", <<build_fold_addr_expr(var_ap)>>, NULL_TREE, {}),
        gimple_build_call("none", <<>>, NULL_TREE, {"a"}),
        gimple_build_call("none", <<>>, var_a, {"a"}),
        gimple_build_asm}

KillInit ==
  /\ flag_strict_aliasing \in BOOLEAN
  /\ flag_errno_math \in BOOLEAN
  /\ kill_stmt \in KillStmts
  /\ kill_ref \in KillRefs
  /\ kill_tbaa \in BOOLEAN
  /\ kills = NULL
  /\ clobbers = NULL
  /\ kill_pc = "kills"
  (* The other components are not in use. *)
  /\ type = NULL_TREE /\ this = set_undefined /\ op = "none"
  /\ req = set_undefined /\ other = set_undefined /\ prev = set_undefined
  /\ expr_type = NULL_TREE /\ opnd0 = set_undefined /\ opnd1 = set_undefined
  /\ expr_code = "ERROR_MARK" /\ expr_vr = set_undefined /\ arith_pc = "none"
  /\ tbaa = FALSE /\ ao1 = NULL_TREE /\ ao2 = NULL_TREE
  /\ memory = <<>> /\ answers = <<>> /\ alias_pc = "none"
  /\ ssa = <<>> /\ clobber = {} /\ lookup = <<>> /\ translate = "absent" /\ limit = 0
  /\ budget = 0 /\ vuse = NULL /\ visited = {} /\ translated = FALSE /\ result = NULL
  /\ frames = <<>> /\ ret = <<>> /\ walk_pc = "none" /\ queries = 0 /\ looked = 0
  /\ cfun = <<>> /\ vr_value = <<>> /\ simulate_again = {} /\ executable = {}
  /\ cfg_worklist = {} /\ ssa_worklist = {} /\ moves = {} /\ solve_pc = "none"
  /\ vdef_ref = NULL /\ vdef_walker = NULL /\ vdef_limit = 0 /\ vdef_supplied = "absent"
  /\ vdef_visited = <<>> /\ vdef_frames = <<>> /\ cnt = 0 /\ function_entry_reached = FALSE
  /\ walked = <<>> /\ offered = <<>> /\ vdef_ret = NULL /\ vdef_pc = "none"
  /\ fun = <<>> /\ value_hash = <<>> /\ asserts_for = <<>> /\ need_assert_for = {}
  /\ inserted = <<>> /\ assert_pc = "none"
  /\ pplus_type = NULL_TREE /\ flag_delete_null_pointer_checks = FALSE /\ pplus_vr0 = set_undefined
  /\ pplus_vr1 = set_undefined /\ pplus_vr = set_undefined /\ pplus_pc = "none"

(* stmt_kills_ref_p (stmt, ref). *)
StmtKillsRef ==
  /\ kill_pc = "kills"
  /\ kills' = stmt_kills_ref_p(kill_stmt, kill_ref)
  /\ \E shared \in IF gimple_has_lhs(kill_stmt) /\ gimple_get_lhs(kill_stmt) = kill_ref
                   THEN BOOLEAN ELSE {FALSE} :
       /\ kill_stmt' = trees_after_stmt_kills_ref_p(kill_stmt, kill_ref, shared).stmt
       /\ kill_ref' = trees_after_stmt_kills_ref_p(kill_stmt, kill_ref, shared).ref
  /\ kill_pc' = "may_clobber"
  /\ UNCHANGED <<flag_errno_math, kill_tbaa, clobbers>>
  /\ UNCHANGED killRest

(* stmt_may_clobber_ref_p (stmt, ref, tbaa_p). *)
StmtMayClobberRef ==
  /\ kill_pc = "may_clobber"
  /\ clobbers' = stmt_may_clobber_ref_p(kill_stmt, kill_ref, kill_tbaa)
  /\ kill_pc' = "done"
  /\ UNCHANGED <<flag_errno_math, kill_stmt, kill_ref, kill_tbaa, kills>>
  /\ UNCHANGED killRest

KillNext == StmtKillsRef \/ StmtMayClobberRef

SpecKill == KillInit /\ [][KillNext]_vars

(* ------------------------------------------------------------------ *)
(* The walk over the virtual use-def chain.                            *)
(* ------------------------------------------------------------------ *)

(* The largest LIMIT a caller passes. *)
MaxLimit == 4

gimple_nop == [code |-> "GIMPLE_NOP", bb |-> "ENTRY"]

(* A statement with a virtual definition: its block and its virtual use. *)
gimple_assign(block, use) == [code |-> "GIMPLE_ASSIGN", bb |-> block, vuse |-> use]

gimple_phi(block, arguments) == [code |-> "GIMPLE_PHI", bb |-> block, args |-> arguments]

(* bb2: m1 = store (m0); m2 = store (m1); m3 = store (m2). *)
straight_line ==
  [defs |-> [m0 |-> gimple_nop, m1 |-> gimple_assign("bb2", "m0"),
             m2 |-> gimple_assign("bb2", "m1"), m3 |-> gimple_assign("bb2", "m2")],
   idom |-> [bb2 |-> "ENTRY"],
   uses |-> {"m3", "m0"}]

(* if (..) m2 = store (m1); else m3 = store (m1); m4 = PHI <m2, m3>. *)
diamond ==
  [defs |-> [m0 |-> gimple_nop, m1 |-> gimple_assign("bb2", "m0"),
             m2 |-> gimple_assign("bb3", "m1"), m3 |-> gimple_assign("bb4", "m1"),
             m4 |-> gimple_phi("bb5", <<"m2", "m3">>),
             m5 |-> gimple_assign("bb5", "m4")],
   idom |-> [bb2 |-> "ENTRY", bb3 |-> "bb2", bb4 |-> "bb2", bb5 |-> "bb2"],
   uses |-> {"m5", "m4"}]

(* A loop: m2 = PHI <m1, m3> in the header, m3 = store (m2) in the body. *)
loop ==
  [defs |-> [m0 |-> gimple_nop, m1 |-> gimple_assign("bb2", "m0"),
             m2 |-> gimple_phi("bb3", <<"m1", "m3">>),
             m3 |-> gimple_assign("bb4", "m2"),
             m4 |-> gimple_assign("bb5", "m2")],
   idom |-> [bb2 |-> "ENTRY", bb3 |-> "bb2", bb4 |-> "bb3", bb5 |-> "bb3"],
   uses |-> {"m4", "m3"}]

(* Two nested loops: the PHI of the inner header is an argument of the
   PHI of the outer header through the store of the outer latch. *)
nested_loops ==
  [defs |-> [m0 |-> gimple_nop, m1 |-> gimple_assign("bb2", "m0"),
             m2 |-> gimple_phi("bb3", <<"m1", "m5">>),
             m3 |-> gimple_phi("bb4", <<"m2", "m4">>),
             m4 |-> gimple_assign("bb5", "m3"),
             m5 |-> gimple_assign("bb6", "m3")],
   idom |-> [bb2 |-> "ENTRY", bb3 |-> "bb2", bb4 |-> "bb3", bb5 |-> "bb4",
             bb6 |-> "bb4"],
   uses |-> {"m5", "m4", "m2"}]

(* An irreducible region: bb3 and bb4 are both entered from bb2 and jump
   to each other, so each PHI is an argument of the other through a store. *)
irreducible ==
  [defs |-> [m0 |-> gimple_nop, m1 |-> gimple_assign("bb2", "m0"),
             m2 |-> gimple_phi("bb3", <<"m1", "m5">>),
             m3 |-> gimple_phi("bb4", <<"m1", "m4">>),
             m4 |-> gimple_assign("bb3", "m2"),
             m5 |-> gimple_assign("bb4", "m3")],
   idom |-> [bb2 |-> "ENTRY", bb3 |-> "bb2", bb4 |-> "bb2"],
   uses |-> {"m5", "m4"}]

(* Loops without a store: a cycle of PHI nodes alone, and the
   single-argument PHI of the loop exit. *)
phi_cycle ==
  [defs |-> [m0 |-> gimple_nop, m1 |-> gimple_assign("bb2", "m0"),
             m2 |-> gimple_phi("bb3", <<"m1", "m3">>),
             m3 |-> gimple_phi("bb4", <<"m2", "m3">>),
             m4 |-> gimple_phi("bb5", <<"m2">>)],
   idom |-> [bb2 |-> "ENTRY", bb3 |-> "bb2", bb4 |-> "bb3", bb5 |-> "bb3"],
   uses |-> {"m4", "m3"}]

(* A three-way join: bb2 branches to bb3 and to the join bb5, bb3 to bb4
   and to the join; the paths of two PHI arguments share the store of
   bb3, which does not dominate the join. *)
three_way ==
  [defs |-> [m0 |-> gimple_nop, m1 |-> gimple_assign("bb2", "m0"),
             m2 |-> gimple_assign("bb3", "m1"), m3 |-> gimple_assign("bb4", "m2"),
             m4 |-> gimple_phi("bb5", <<"m2", "m3", "m1">>),
             m5 |-> gimple_assign("bb5", "m4")],
   idom |-> [bb2 |-> "ENTRY", bb3 |-> "bb2", bb4 |-> "bb3", bb5 |-> "bb2"],
   uses |-> {"m5", "m4"}]

Graphs == {straight_line, diamond, loop, nested_loops, irreducible, phi_cycle, three_way}

SSA_NAME_DEF_STMT(name) == ssa.defs[name]

SSA_NAME_IS_DEFAULT_DEF(name) == ssa.defs[name].code = "GIMPLE_NOP"

gimple_bb(stmt) == stmt.bb

gimple_nop_p(stmt) == stmt.code = "GIMPLE_NOP"

gimple_vuse(stmt) == stmt.vuse

gimple_phi_num_args(phi) == Len(phi.args)

PHI_ARG_DEF(phi, i) == phi.args[i]

get_immediate_dominator(block) == ssa.idom[block]

(* Whether BB1 is dominated by BB2. *)
RECURSIVE dominated_by_p(_, _)
dominated_by_p(bb1, bb2) ==
  \/ bb1 = bb2
  \/ bb1 # "ENTRY" /\ dominated_by_p(get_immediate_dominator(bb1), bb2)

bitmap_bit_p(map, bit) == bit \in map

(* The answer of the alias oracle for the statement defining NAME. *)
stmt_may_clobber_ref_p_1(name) == name \in clobber

(* (*walker) (ref, vuse, data): NULL, "abort" for (void *)-1, or a result. *)
walker(name) == IF lookup.at = name THEN lookup.res ELSE NULL

(* A walk without a budget. *)
limit_never_reached(n) == FALSE

(* A budget that allows one query more. *)
limit_below_zero(n) == n < 0

(* Whether the budget of alias queries is used up. *)
limit_reached(n) == n <= 0

(* The first loop of get_continuation_for_phi: an argument whose
   definition dominates the PHI, from argument I on. *)
RECURSIVE phi_candidate(_, _)
phi_candidate(phi, i) ==
  IF i > gimple_phi_num_args(phi) THEN NULL
  ELSE LET arg0 == PHI_ARG_DEF(phi, i)
           def_bb == gimple_bb(SSA_NAME_DEF_STMT(arg0))
       IN  IF SSA_NAME_IS_DEFAULT_DEF(arg0) THEN arg0
           ELSE IF def_bb # gimple_bb(phi) /\ dominated_by_p(gimple_bb(phi), def_bb)
           THEN arg0
           ELSE phi_candidate(phi, i + 1)

(* A call of get_continuation_for_phi that is not told of a translation. *)
continuation_frame_not_translated(name, abort_on_visited) ==
  [fn |-> "get_continuation_for_phi", phi |-> name,
   arg0 |-> phi_candidate(SSA_NAME_DEF_STMT(name), 1), i |-> 1,
   abort_on_visited |-> FALSE]

(* The frame of a call of get_continuation_for_phi at its second loop. *)
continuation_frame(name, abort_on_visited) ==
  [fn |-> "get_continuation_for_phi", phi |-> name,
   arg0 |-> phi_candidate(SSA_NAME_DEF_STMT(name), 1), i |-> 1,
   abort_on_visited |-> abort_on_visited]

(* The frame of a call of maybe_skip_until at its loop. *)
skip_frame(name, target, target_bb, use, abort_on_visited) ==
  [fn |-> "maybe_skip_until", phi |-> name, target |-> target,
   target_bb |-> target_bb, vuse |-> use,
   bb |-> gimple_bb(SSA_NAME_DEF_STMT(name)),
   abort_on_visited |-> abort_on_visited]

callee == frames[Len(frames)]

callers == SubSeq(frames, 1, Len(frames) - 1)

in_call(fn) == walk_pc = "call" /\ frames # <<>> /\ callee.fn = fn

returned_to(fn) == walk_pc = "return" /\ frames # <<>> /\ callee.fn = fn

(* The callee returns VALUE to its caller. *)
return(value) ==
  /\ frames' = callers
  /\ ret' = value
  /\ walk_pc' = "return"

(* The callee goes on with its frame changed to FRAME. *)
continue(frame) ==
  /\ frames' = Append(callers, frame)
  /\ walk_pc' = "call"
  /\ UNCHANGED ret

walkInputs == <<ssa, clobber, lookup, translate, budget>>

WalkInit ==
  /\ ssa \in Graphs
  /\ vuse \in ssa.uses
  /\ clobber \in SUBSET {n \in DOMAIN ssa.defs : ssa.defs[n].code = "GIMPLE_ASSIGN"}
  /\ lookup \in {[at |-> NULL, res |-> NULL]}
                  \cup [at : DOMAIN ssa.defs, res : {"found", "abort"}]
  /\ translate \in {"absent", NULL, "abort", "found"}
  /\ budget \in 0..MaxLimit
  /\ limit = budget
  /\ visited = {}
  /\ translated = FALSE
  /\ result = NULL
  /\ frames = <<>>
  /\ ret = [ok |-> TRUE, name |-> NULL]
  /\ walk_pc = "walk"
  /\ queries = 0
  /\ looked = 0
  (* The other components are not in use. *)
  /\ type = NULL_TREE /\ this = set_undefined /\ op = "none"
  /\ req = set_undefined /\ other = set_undefined /\ prev = set_undefined
  /\ expr_type = NULL_TREE /\ opnd0 = set_undefined /\ opnd1 = set_undefined
  /\ expr_code = "ERROR_MARK" /\ expr_vr = set_undefined /\ arith_pc = "none"
  /\ flag_strict_aliasing = FALSE /\ tbaa = FALSE /\ ao1 = NULL_TREE /\ ao2 = NULL_TREE
  /\ memory = <<>> /\ answers = <<>> /\ alias_pc = "none"
  /\ cfun = <<>> /\ vr_value = <<>> /\ simulate_again = {} /\ executable = {}
  /\ cfg_worklist = {} /\ ssa_worklist = {} /\ moves = {} /\ solve_pc = "none"
  /\ flag_errno_math = FALSE /\ kill_stmt = NULL_TREE /\ kill_ref = NULL_TREE /\ kill_tbaa = FALSE
  /\ kills = NULL /\ clobbers = NULL /\ kill_pc = "none"
  /\ vdef_ref = NULL /\ vdef_walker = NULL /\ vdef_limit = 0 /\ vdef_supplied = "absent"
  /\ vdef_visited = <<>> /\ vdef_frames = <<>> /\ cnt = 0 /\ function_entry_reached = FALSE
  /\ walked = <<>> /\ offered = <<>> /\ vdef_ret = NULL /\ vdef_pc = "none"
  /\ fun = <<>> /\ value_hash = <<>> /\ asserts_for = <<>> /\ need_assert_for = {}
  /\ inserted = <<>> /\ assert_pc = "none"
  /\ pplus_type = NULL_TREE /\ flag_delete_null_pointer_checks = FALSE /\ pplus_vr0 = set_undefined
  /\ pplus_vr1 = set_undefined /\ pplus_vr = set_undefined /\ pplus_pc = "none"

(* walk_non_aliased_vuses: the walker answers at VUSE. *)
WalkerLookup ==
  /\ walk_pc = "walk"
  /\ walker(vuse) # NULL
  /\ result' = IF walker(vuse) = "abort" THEN NULL ELSE walker(vuse)
  /\ walk_pc' = "done"
  /\ UNCHANGED <<walkInputs, limit, vuse, visited, translated, frames, ret, queries, looked>>
  /\ UNCHANGED walkRest

(* walk_non_aliased_vuses: VUSE is the default definition. *)
WalkEntry ==
  /\ walk_pc = "walk"
  /\ walker(vuse) = NULL
  /\ gimple_nop_p(SSA_NAME_DEF_STMT(vuse))
  /\ walk_pc' = "done"
  /\ UNCHANGED <<walkInputs, limit, vuse, visited, translated, result, frames, ret, queries, looked>>
  /\ UNCHANGED walkRest

(* walk_non_aliased_vuses: VUSE is defined by a PHI node. *)
WalkPhi ==
  /\ walk_pc = "walk"
  /\ walker(vuse) = NULL
  /\ SSA_NAME_DEF_STMT(vuse).code = "GIMPLE_PHI"
  /\ frames' = <<continuation_frame(vuse, translated)>>
  /\ looked' = looked + 1
  /\ walk_pc' = "call"
  /\ UNCHANGED <<walkInputs, limit, vuse, visited, translated, result, ret, queries>>
  /\ UNCHANGED walkRest

(* walk_non_aliased_vuses: VUSE is defined by a statement. *)
WalkStmt ==
  /\ walk_pc = "walk"
  /\ walker(vuse) = NULL
  /\ SSA_NAME_DEF_STMT(vuse).code = "GIMPLE_ASSIGN"
  /\ IF limit_reached(limit)
     THEN /\ result' = NULL
          /\ walk_pc' = "done"
          /\ UNCHANGED <<limit, queries, vuse, translated>>
     ELSE /\ limit' = limit - 1
          /\ queries' = queries + 1
          /\ IF stmt_may_clobber_ref_p_1(vuse)
             THEN IF translate = "absent"
                  THEN /\ walk_pc' = "done"
                       /\ UNCHANGED <<result, vuse, translated>>
                  ELSE IF translate = "abort"
                  THEN /\ result' = NULL
                       /\ walk_pc' = "done"
                       /\ UNCHANGED <<vuse, translated>>
                  ELSE IF translate # NULL
                  THEN /\ result' = translate
                       /\ walk_pc' = "done"
                       /\ UNCHANGED <<vuse, translated>>
                  ELSE /\ translated' = TRUE
                       /\ vuse' = gimple_vuse(SSA_NAME_DEF_STMT(vuse))
                       /\ UNCHANGED <<result, walk_pc>>
             ELSE /\ vuse' = gimple_vuse(SSA_NAME_DEF_STMT(vuse))
                  /\ UNCHANGED <<result, walk_pc, translated>>
  /\ UNCHANGED <<walkInputs, visited, frames, ret, looked>>
  /\ UNCHANGED walkRest

(* walk_non_aliased_vuses: get_continuation_for_phi has returned. *)
WalkContinue ==
  /\ walk_pc = "return"
  /\ frames = <<>>
  /\ vuse' = ret.name
  /\ walk_pc' = IF ret.name = NULL THEN "done" ELSE "walk"
  /\ UNCHANGED <<walkInputs, limit, visited, translated, result, frames, ret, queries, looked>>
  /\ UNCHANGED walkRest

(* get_continuation_for_phi: a PHI with one argument is looked through. *)
PhiSingle ==
  /\ in_call("get_continuation_for_phi")
  /\ gimple_phi_num_args(SSA_NAME_DEF_STMT(callee.phi)) = 1
  /\ return([ok |-> TRUE, name |-> PHI_ARG_DEF(SSA_NAME_DEF_STMT(callee.phi), 1)])
  /\ UNCHANGED <<walkInputs, limit, vuse, visited, translated, result, queries, looked>>
  /\ UNCHANGED walkRest

(* get_continuation_for_phi: the next argument is checked against the
   candidate; maybe_skip_until is entered for an argument other than it. *)
PhiArg ==
  /\ in_call("get_continuation_for_phi")
  /\ LET phi == SSA_NAME_DEF_STMT(callee.phi)
     IN  /\ gimple_phi_num_args(phi) # 1
         /\ callee.i <= gimple_phi_num_args(phi)
         /\ IF PHI_ARG_DEF(phi, callee.i) = callee.arg0
            THEN /\ continue([callee EXCEPT !.i = @ + 1])
                 /\ UNCHANGED visited
            ELSE /\ frames' = Append(frames,
                        skip_frame(callee.phi, callee.arg0,
                                   get_immediate_dominator(gimple_bb(phi)),
                                   PHI_ARG_DEF(phi, callee.i),
                                   callee.abort_on_visited))
                 /\ visited' = visited \cup {callee.phi}
                 /\ UNCHANGED <<ret, walk_pc>>
  /\ UNCHANGED <<walkInputs, limit, vuse, translated, result, queries, looked>>
  /\ UNCHANGED walkRest

(* get_continuation_for_phi: every argument reaches the candidate. *)
PhiDone ==
  /\ in_call("get_continuation_for_phi")
  /\ gimple_phi_num_args(SSA_NAME_DEF_STMT(callee.phi)) # 1
  /\ callee.i > gimple_phi_num_args(SSA_NAME_DEF_STMT(callee.phi))
  /\ return([ok |-> TRUE, name |-> callee.arg0])
  /\ UNCHANGED <<walkInputs, limit, vuse, visited, translated, result, queries, looked>>
  /\ UNCHANGED walkRest

(* get_continuation_for_phi with the test of maybe_skip_until's answer
   inverted. *)
PhiResumeInverted ==
  /\ returned_to("get_continuation_for_phi")
  /\ IF ret.ok
     THEN return([ok |-> TRUE, name |-> NULL])
     ELSE continue([callee EXCEPT !.arg0 = ret.name, !.i = @ + 1])
  /\ UNCHANGED <<walkInputs, limit, vuse, visited, translated, result, queries, looked>>
  /\ UNCHANGED walkRest

(* get_continuation_for_phi: maybe_skip_until has returned, with the
   candidate it may have found. *)
PhiResume ==
  /\ returned_to("get_continuation_for_phi")
  /\ IF ~ret.ok
     THEN return([ok |-> TRUE, name |-> NULL])
     ELSE continue([callee EXCEPT !.arg0 = ret.name, !.i = @ + 1])
  /\ UNCHANGED <<walkInputs, limit, vuse, visited, translated, result, queries, looked>>
  /\ UNCHANGED walkRest

(* maybe_skip_until: the walk has hit the target. *)
SkipReached ==
  /\ in_call("maybe_skip_until")
  /\ callee.vuse = callee.target
  /\ return([ok |-> TRUE, name |-> callee.target])
  /\ UNCHANGED <<walkInputs, limit, vuse, visited, translated, result, queries, looked>>
  /\ UNCHANGED walkRest

(* maybe_skip_until: without a target, the walk ends at the default
   definition or at a definition in a block dominating TARGET_BB. *)
SkipTarget ==
  /\ in_call("maybe_skip_until")
  /\ callee.vuse # callee.target
  /\ callee.target = NULL
  /\ LET def_stmt == SSA_NAME_DEF_STMT(callee.vuse)
     IN  \/ gimple_nop_p(def_stmt)
         \/ dominated_by_p(callee.target_bb, gimple_bb(def_stmt))
  /\ return([ok |-> TRUE, name |-> callee.vuse])
  /\ UNCHANGED <<walkInputs, limit, vuse, visited, translated, result, queries, looked>>
  /\ UNCHANGED walkRest

(* Neither of the two ways above ends the loop of maybe_skip_until. *)
skip_goes_on ==
  /\ in_call("maybe_skip_until")
  /\ callee.vuse # callee.target
  /\ ~ /\ callee.target = NULL
       /\ LET def_stmt == SSA_NAME_DEF_STMT(callee.vuse)
          IN  \/ gimple_nop_p(def_stmt)
              \/ dominated_by_p(callee.target_bb, gimple_bb(def_stmt))

(* maybe_skip_until in which a PHI node visited before always ends the
   walk successfully. *)
SkipVisitedPhiSucceeds ==
  /\ skip_goes_on
  /\ SSA_NAME_DEF_STMT(callee.vuse).code = "GIMPLE_PHI"
  /\ bitmap_bit_p(visited, callee.vuse)
  /\ return([ok |-> TRUE, name |-> callee.target])
  /\ UNCHANGED <<walkInputs, limit, vuse, visited, translated, result, queries, looked>>
  /\ UNCHANGED walkRest

(* maybe_skip_until: a PHI node visited before ends the walk. *)
SkipVisitedPhi ==
  /\ skip_goes_on
  /\ SSA_NAME_DEF_STMT(callee.vuse).code = "GIMPLE_PHI"
  /\ bitmap_bit_p(visited, callee.vuse)
  /\ return([ok |-> ~callee.abort_on_visited, name |-> callee.target])
  /\ UNCHANGED <<walkInputs, limit, vuse, visited, translated, result, queries, looked>>
  /\ UNCHANGED walkRest

(* maybe_skip_until: recurse for a PHI node. *)
SkipPhi ==
  /\ skip_goes_on
  /\ SSA_NAME_DEF_STMT(callee.vuse).code = "GIMPLE_PHI"
  /\ ~bitmap_bit_p(visited, callee.vuse)
  /\ frames' = Append(frames, continuation_frame(callee.vuse, callee.abort_on_visited))
  /\ looked' = looked + 1
  /\ UNCHANGED <<walkInputs, limit, vuse, visited, translated, result, ret, walk_pc, queries>>
  /\ UNCHANGED walkRest

(* maybe_skip_until: the default definition, or a statement, which costs
   an alias query; then the block reached and the next virtual use. *)
SkipStmt ==
  /\ skip_goes_on
  /\ SSA_NAME_DEF_STMT(callee.vuse).code # "GIMPLE_PHI"
  /\ LET def_stmt == SSA_NAME_DEF_STMT(callee.vuse)
         fail == return([ok |-> FALSE, name |-> callee.target])
     IN  IF gimple_nop_p(def_stmt)
         THEN fail /\ UNCHANGED <<limit, queries, visited>>
         ELSE IF limit_reached(limit)
         THEN fail /\ UNCHANGED <<limit, queries, visited>>
         ELSE /\ limit' = limit - 1
              /\ queries' = queries + 1
              /\ IF /\ stmt_may_clobber_ref_p_1(callee.vuse)
                    /\ ~(translate # "absent" /\ translate = NULL)
                 THEN fail /\ UNCHANGED visited
                 ELSE IF gimple_bb(def_stmt) # callee.bb
                 THEN IF bitmap_bit_p(visited, callee.vuse)
                      THEN /\ return([ok |-> ~callee.abort_on_visited,
                                      name |-> callee.target])
                           /\ UNCHANGED visited
                      ELSE /\ visited' = visited \cup {callee.vuse}
                           /\ continue([callee EXCEPT !.bb = gimple_bb(def_stmt),
                                                      !.vuse = gimple_vuse(def_stmt)])
                 ELSE /\ continue([callee EXCEPT !.vuse = gimple_vuse(def_stmt)])
                      /\ UNCHANGED visited
  /\ UNCHANGED <<walkInputs, vuse, translated, result, looked>>
  /\ UNCHANGED walkRest

(* maybe_skip_until: get_continuation_for_phi has returned. *)
SkipResume ==
  /\ returned_to("maybe_skip_until")
  /\ IF ret.name = NULL
     THEN return([ok |-> FALSE, name |-> callee.target])
     ELSE continue([callee EXCEPT !.vuse = ret.name])
  /\ UNCHANGED <<walkInputs, limit, vuse, visited, translated, result, queries, looked>>
  /\ UNCHANGED walkRest

WalkNext ==
  \/ WalkerLookup \/ WalkEntry \/ WalkPhi \/ WalkStmt \/ WalkContinue
  \/ PhiSingle \/ PhiArg \/ PhiDone \/ PhiResume
  \/ SkipReached \/ SkipTarget \/ SkipVisitedPhi \/ SkipPhi \/ SkipStmt \/ SkipResume

SpecWalk == WalkInit /\ [][WalkNext]_vars

(* The walk is one sequential computation: it always takes its next step. *)
SpecWalkFair == WalkInit /\ [][WalkNext]_vars /\ WF_vars(WalkNext)

(* ------------------------------------------------------------------ *)
(* The walk over the aliased virtual definitions.                      *)
(* ------------------------------------------------------------------ *)

(* A call of walk_aliased_vdefs_1 at VDEF, and one that is in the loop
   over the arguments of the PHI node that defines VDEF, I arguments
   done. *)
vdefs_frame(vdef) == [at |-> "vdef", vdef |-> vdef, i |-> 0]

args_frame(vdef, i) == [at |-> "phi", vdef |-> vdef, i |-> i]

vdef_callee == vdef_frames[Len(vdef_frames)]

vdef_callers == SubSeq(vdef_frames, 1, Len(vdef_frames) - 1)

(* The definitions counted so far are at most this many times each. *)
count_visit(seen, name) == [seen EXCEPT ![name] = @ + 1]

(* bitmap_set_bit is true when the bit was not set before. *)
bitmap_set_bit(map, bit) == ~bitmap_bit_p(map, bit)

(* *visited is <<>> when it is null and holds the bitmap otherwise: the
   bitmap with the bit set, when there is a bitmap. *)
vdef_set_bit(map, bit) == IF map = <<>> THEN <<>> ELSE <<map[1] \cup {bit}>>

(* walk_aliased_vdefs (ref, vdef, walker, data, visited,
   &function_entry_reached, limit): the caller passes no bitmap, the
   address of a null bitmap, or a bitmap it has allocated. *)
VdefInit ==
  /\ ssa \in Graphs
  /\ vdef_ref \in {NULL, "ref"}
  /\ clobber \in IF vdef_ref = NULL THEN {{}}
                 ELSE {c \in SUBSET {n \in DOMAIN ssa.defs : ssa.defs[n].code = "GIMPLE_ASSIGN"} : Cardinality(c) <= 1}
  /\ vdef_walker \in {NULL} \cup {n \in DOMAIN ssa.defs : ssa.defs[n].code = "GIMPLE_ASSIGN"}
  /\ vdef_limit \in {0, 2, MaxLimit}
  /\ vdef_supplied \in {"absent", "null", "allocated"}
  /\ vdef_visited = IF vdef_supplied = "allocated" THEN <<{}>> ELSE <<>>
  /\ vdef_frames \in {<<vdefs_frame(n)>> : n \in DOMAIN ssa.defs}
  /\ cnt = 0
  /\ function_entry_reached = FALSE
  /\ walked = [n \in DOMAIN ssa.defs |-> 0]
  /\ offered = [n \in DOMAIN ssa.defs |-> 0]
  /\ vdef_ret = NULL
  /\ vdef_pc = "walk"
  (* The other components are not in use. *)
  /\ type = NULL_TREE /\ this = set_undefined /\ op = "none"
  /\ req = set_undefined /\ other = set_undefined /\ prev = set_undefined
  /\ expr_type = NULL_TREE /\ opnd0 = set_undefined /\ opnd1 = set_undefined
  /\ expr_code = "ERROR_MARK" /\ expr_vr = set_undefined /\ arith_pc = "none"
  /\ flag_strict_aliasing = FALSE /\ tbaa = FALSE /\ ao1 = NULL_TREE /\ ao2 = NULL_TREE
  /\ memory = <<>> /\ answers = <<>> /\ alias_pc = "none"
  /\ lookup = <<>> /\ translate = "absent" /\ limit = 0
  /\ budget = 0 /\ vuse = NULL /\ visited = {} /\ translated = FALSE /\ result = NULL
  /\ frames = <<>> /\ ret = <<>> /\ walk_pc = "none" /\ queries = 0 /\ looked = 0
  /\ cfun = <<>> /\ vr_value = <<>> /\ simulate_again = {} /\ executable = {}
  /\ cfg_worklist = {} /\ ssa_worklist = {} /\ moves = {} /\ solve_pc = "none"
  /\ flag_errno_math = FALSE /\ kill_stmt = NULL_TREE /\ kill_ref = NULL_TREE /\ kill_tbaa = FALSE
  /\ kills = NULL /\ clobbers = NULL /\ kill_pc = "none"
  /\ fun = <<>> /\ value_hash = <<>> /\ asserts_for = <<>> /\ need_assert_for = {}
  /\ inserted = <<>> /\ assert_pc = "none"
  /\ pplus_type = NULL_TREE /\ flag_delete_null_pointer_checks = FALSE /\ pplus_vr0 = set_undefined
  /\ pplus_vr1 = set_undefined /\ pplus_vr = set_undefined /\ pplus_pc = "none"

vdef_inputs == <<ssa, clobber, vdef_ref, vdef_walker, vdef_limit, vdef_supplied>>

at_vdef == vdef_pc = "walk" /\ vdef_frames # <<>> /\ vdef_callee.at = "vdef"

(* The definition is in the bitmap already: return cnt. *)
VdefSeen ==
  /\ at_vdef
  /\ vdef_visited # <<>> /\ ~bitmap_set_bit(vdef_visited[1], vdef_callee.vdef)
  /\ vdef_frames' = vdef_callers
  /\ UNCHANGED <<vdef_inputs, vdef_visited, cnt, function_entry_reached, walked, offered, vdef_ret, vdef_pc>>
  /\ UNCHANGED vdefRest

vdef_new == at_vdef /\ (IF vdef_visited = <<>> THEN TRUE ELSE bitmap_set_bit(vdef_visited[1], vdef_callee.vdef))

(* The entry of the function. *)
VdefEntry ==
  /\ vdef_new
  /\ gimple_nop_p(SSA_NAME_DEF_STMT(vdef_callee.vdef))
  /\ vdef_visited' = vdef_set_bit(vdef_visited, vdef_callee.vdef)
  /\ function_entry_reached' = TRUE
  /\ vdef_frames' = vdef_callers
  /\ UNCHANGED <<vdef_inputs, cnt, walked, offered, vdef_ret, vdef_pc>>
  /\ UNCHANGED vdefRest

(* A PHI node: the bitmap is allocated when there is none, then the
   arguments are walked. *)
VdefPhi ==
  /\ vdef_new
  /\ SSA_NAME_DEF_STMT(vdef_callee.vdef).code = "GIMPLE_PHI"
  /\ vdef_visited' = IF vdef_visited = <<>> THEN <<{}>>
                     ELSE vdef_set_bit(vdef_visited, vdef_callee.vdef)
  /\ vdef_frames' = Append(vdef_callers, args_frame(vdef_callee.vdef, 0))
  /\ UNCHANGED <<vdef_inputs, cnt, function_entry_reached, walked, offered, vdef_ret, vdef_pc>>
  /\ UNCHANGED vdefRest

(* The next argument of the PHI node, or the return after the last. *)
VdefPhiArg ==
  /\ vdef_pc = "walk" /\ vdef_frames # <<>> /\ vdef_callee.at = "phi"
  /\ LET phi == SSA_NAME_DEF_STMT(vdef_callee.vdef)
     IN  IF vdef_callee.i < gimple_phi_num_args(phi)
         THEN vdef_frames' = vdef_callers
                \o <<args_frame(vdef_callee.vdef, vdef_callee.i + 1),
                     vdefs_frame(PHI_ARG_DEF(phi, vdef_callee.i + 1))>>
         ELSE vdef_frames' = vdef_callers
  /\ UNCHANGED <<vdef_inputs, vdef_visited, cnt, function_entry_reached, walked, offered, vdef_ret, vdef_pc>>
  /\ UNCHANGED vdefRest

(* walk_aliased_vdefs_1 aborting when the count is at or above the limit. *)
VdefStmtAtOrAboveLimit ==
  /\ vdef_new
  /\ SSA_NAME_DEF_STMT(vdef_callee.vdef).code = "GIMPLE_ASSIGN"
  /\ vdef_visited' = vdef_set_bit(vdef_visited, vdef_callee.vdef)
  /\ cnt' = cnt + 1
  /\ walked' = count_visit(walked, vdef_callee.vdef)
  /\ LET name  == vdef_callee.vdef
         asked == cnt + 1 < vdef_limit /\ (vdef_ref = NULL \/ stmt_may_clobber_ref_p_1(name))
     IN  /\ offered' = IF asked THEN count_visit(offered, name) ELSE offered
         /\ IF cnt + 1 >= vdef_limit
            THEN vdef_frames' = <<>> /\ vdef_ret' = -1 /\ vdef_pc' = "done"
            ELSE /\ IF asked /\ vdef_walker = name
                    THEN vdef_frames' = vdef_callers
                    ELSE vdef_frames' = Append(vdef_callers,
                                               vdefs_frame(gimple_vuse(SSA_NAME_DEF_STMT(name))))
                 /\ UNCHANGED <<vdef_ret, vdef_pc>>
  /\ UNCHANGED <<vdef_inputs, function_entry_reached>>
  /\ UNCHANGED vdefRest

(* walk_aliased_vdefs_1 walking on whatever the walker answers. *)
VdefStmtWalksOn ==
  /\ vdef_new
  /\ SSA_NAME_DEF_STMT(vdef_callee.vdef).code = "GIMPLE_ASSIGN"
  /\ vdef_visited' = vdef_set_bit(vdef_visited, vdef_callee.vdef)
  /\ cnt' = cnt + 1
  /\ walked' = count_visit(walked, vdef_callee.vdef)
  /\ LET name  == vdef_callee.vdef
         asked == cnt + 1 # vdef_limit /\ (vdef_ref = NULL \/ stmt_may_clobber_ref_p_1(name))
     IN  /\ offered' = IF asked THEN count_visit(offered, name) ELSE offered
         /\ IF cnt + 1 = vdef_limit
            THEN vdef_frames' = <<>> /\ vdef_ret' = -1 /\ vdef_pc' = "done"
            ELSE /\ vdef_frames' = Append(vdef_callers,
                                          vdefs_frame(gimple_vuse(SSA_NAME_DEF_STMT(name))))
                 /\ UNCHANGED <<vdef_ret, vdef_pc>>
  /\ UNCHANGED <<vdef_inputs, function_entry_reached>>
  /\ UNCHANGED vdefRest

(* A statement: it is counted; at the limit the whole walk returns -1;
   it is offered to the walker when it may clobber the reference or
   there is no reference, and the walker ends this walk or not. *)
VdefStmt ==
  /\ vdef_new
  /\ SSA_NAME_DEF_STMT(vdef_callee.vdef).code = "GIMPLE_ASSIGN"
  /\ vdef_visited' = vdef_set_bit(vdef_visited, vdef_callee.vdef)
  /\ cnt' = cnt + 1
  /\ walked' = count_visit(walked, vdef_callee.vdef)
  /\ LET name  == vdef_callee.vdef
         asked == cnt + 1 # vdef_limit /\ (vdef_ref = NULL \/ stmt_may_clobber_ref_p_1(name))
     IN  /\ offered' = IF asked THEN count_visit(offered, name) ELSE offered
         /\ IF cnt + 1 = vdef_limit
            THEN vdef_frames' = <<>> /\ vdef_ret' = -1 /\ vdef_pc' = "done"
            ELSE /\ IF asked /\ vdef_walker = name
                    THEN vdef_frames' = vdef_callers
                    ELSE vdef_frames' = Append(vdef_callers,
                                               vdefs_frame(gimple_vuse(SSA_NAME_DEF_STMT(name))))
                 /\ UNCHANGED <<vdef_ret, vdef_pc>>
  /\ UNCHANGED <<vdef_inputs, function_entry_reached>>
  /\ UNCHANGED vdefRest

(* walk_aliased_vdefs returns the count. *)
VdefReturn ==
  /\ vdef_pc = "walk" /\ vdef_frames = <<>>
  /\ vdef_ret' = cnt
  /\ vdef_pc' = "done"
  /\ UNCHANGED <<vdef_inputs, vdef_visited, vdef_frames, cnt, function_entry_reached, walked, offered>>
  /\ UNCHANGED vdefRest

VdefNext == VdefSeen \/ VdefEntry \/ VdefPhi \/ VdefPhiArg \/ VdefStmt \/ VdefReturn

SpecVdefs == VdefInit /\ [][VdefNext]_vars

(* ------------------------------------------------------------------ *)
(* The propagation of value ranges over a function.                    *)
(* ------------------------------------------------------------------ *)

(* An SSA name as an operand of a statement. *)
ssa_operand(name) == [code |-> "SSA_NAME", name |-> name]

(* The argument DEF of a PHI node for the edge from SRC to DEST. *)
phi_arg(src, dest, def) == [e |-> <<src, dest>>, def |-> def]

phi_node(block, arguments) == [code |-> "GIMPLE_PHI", bb |-> block, args |-> arguments]

(* lhs = rhs1 code rhs2, without virtual operands. *)
binary_assign(block, code, rhs1, rhs2) ==
  [code |-> "GIMPLE_ASSIGN", bb |-> block, rhs_code |-> code,
   operands |-> <<rhs1, rhs2>>, has_vuse |-> FALSE]

(* lhs = *ptr: an assignment with a virtual use. *)
load_assign(block) ==
  [code |-> "GIMPLE_ASSIGN", bb |-> block, rhs_code |-> "MEM_REF",
   operands |-> <<>>, has_vuse |-> TRUE]

(* for (i = 0; ; i = i + 1): one back edge. *)
counting_loop(t) ==
  [lhs_type |-> t,
   stmts |-> [i_1 |-> phi_node("bb3", <<phi_arg("ENTRY", "bb3", build_int_cst(t, 0)),
                                        phi_arg("bb4", "bb3", ssa_operand("i_2"))>>),
              i_2 |-> binary_assign("bb4", "PLUS_EXPR", ssa_operand("i_1"),
                                    build_int_cst(t, 1))],
   edges |-> {<<"ENTRY", "bb3">>, <<"bb3", "bb4">>, <<"bb4", "bb3">>},
   dfs_back |-> {<<"bb4", "bb3">>}]

(* for (i = *ptr; ; i = i - 1): the counter starts at a loaded value. *)
loaded_loop(t) ==
  [lhs_type |-> t,
   stmts |-> [x_1 |-> load_assign("bb2"),
              i_2 |-> phi_node("bb3", <<phi_arg("bb2", "bb3", ssa_operand("x_1")),
                                        phi_arg("bb4", "bb3", ssa_operand("i_3"))>>),
              i_3 |-> binary_assign("bb4", "MINUS_EXPR", ssa_operand("i_2"),
                                    build_int_cst(t, 1))],
   edges |-> {<<"ENTRY", "bb2">>, <<"bb2", "bb3">>, <<"bb3", "bb4">>, <<"bb4", "bb3">>},
   dfs_back |-> {<<"bb4", "bb3">>}]

(* Two nested loops over a flag: the PHI of each header is an argument
   of the other's, and the inner latch stores 1.  Two back edges. *)
nested_flags(t) ==
  [lhs_type |-> t,
   stmts |-> [p_1 |-> phi_node("bb3", <<phi_arg("ENTRY", "bb3", build_int_cst(t, 0)),
                                        phi_arg("bb4", "bb3", ssa_operand("q_2"))>>),
              q_2 |-> phi_node("bb4", <<phi_arg("bb3", "bb4", ssa_operand("p_1")),
                                        phi_arg("bb4", "bb4", build_int_cst(t, 1))>>)],
   edges |-> {<<"ENTRY", "bb3">>, <<"bb3", "bb4">>, <<"bb4", "bb4">>, <<"bb4", "bb3">>},
   dfs_back |-> {<<"bb4", "bb4">>, <<"bb4", "bb3">>}]

(* Two nested loops counting in the inner body.  Two back edges. *)
nested_counters(t) ==
  [lhs_type |-> t,
   stmts |-> [p_1 |-> phi_node("bb3", <<phi_arg("ENTRY", "bb3", build_int_cst(t, 0)),
                                        phi_arg("bb5", "bb3", ssa_operand("r_3"))>>),
              q_2 |-> phi_node("bb4", <<phi_arg("bb3", "bb4", ssa_operand("p_1")),
                                        phi_arg("bb5", "bb4", ssa_operand("r_3"))>>),
              r_3 |-> binary_assign("bb5", "PLUS_EXPR", ssa_operand("q_2"),
                                    build_int_cst(t, 1))],
   edges |-> {<<"ENTRY", "bb3">>, <<"bb3", "bb4">>, <<"bb4", "bb5">>,
              <<"bb5", "bb4">>, <<"bb5", "bb3">>},
   dfs_back |-> {<<"bb5", "bb4">>, <<"bb5", "bb3">>}]

(* for (i = 0, k = 1; ; i = i - k): a statement with two names as
   operands, one of them a loop invariant kept by a PHI node. *)
step_loop(t) ==
  [lhs_type |-> t,
   stmts |-> [i_1 |-> phi_node("bb3", <<phi_arg("ENTRY", "bb3", build_int_cst(t, 0)),
                                        phi_arg("bb4", "bb3", ssa_operand("i_3"))>>),
              k_2 |-> phi_node("bb3", <<phi_arg("ENTRY", "bb3", build_int_cst(t, 1)),
                                        phi_arg("bb4", "bb3", ssa_operand("k_2"))>>),
              i_3 |-> binary_assign("bb4", "MINUS_EXPR", ssa_operand("i_1"),
                                    ssa_operand("k_2"))],
   edges |-> {<<"ENTRY", "bb3">>, <<"bb3", "bb4">>, <<"bb4", "bb3">>},
   dfs_back |-> {<<"bb4", "bb3">>}]

(* x = 1 + 1; y = x - 1: no back edge. *)
no_loop(t) ==
  [lhs_type |-> t,
   stmts |-> [x_1 |-> binary_assign("bb2", "PLUS_EXPR", build_int_cst(t, 1),
                                    build_int_cst(t, 1)),
              y_2 |-> binary_assign("bb3", "MINUS_EXPR", ssa_operand("x_1"),
                                    build_int_cst(t, 1))],
   edges |-> {<<"ENTRY", "bb2">>, <<"bb2", "bb3">>},
   dfs_back |-> {}]

(* The types of the names: unsigned, and signed without and with -fwrapv. *)
SolveTypes ==
  {integer_type(TRUE, Prec, FALSE), integer_type(FALSE, Prec, FALSE),
   integer_type(FALSE, Prec, TRUE)}

Functions ==
  UNION {{counting_loop(t), loaded_loop(t), nested_flags(t), nested_counters(t),
          step_loop(t), no_loop(t)} : t \in SolveTypes}

gimple_code(stmt) == stmt.code

gimple_phi_arg(phi, i) == phi.args[i]

(* The statements using NAME as an operand. *)
immediate_uses(name) ==
  {u \in DOMAIN cfun.stmts :
     LET stmt == cfun.stmts[u]
     IN  IF gimple_code(stmt) = "GIMPLE_PHI"
         THEN \E i \in DOMAIN stmt.args : stmt.args[i].def = ssa_operand(name)
         ELSE \E i \in DOMAIN stmt.operands : stmt.operands[i] = ssa_operand(name)}

stmt_interesting_for_vrp(stmt) ==
  IF gimple_code(stmt) = "GIMPLE_PHI"
  THEN INTEGRAL_TYPE_P(cfun.lhs_type) \/ POINTER_TYPE_P(cfun.lhs_type)
  ELSE IF gimple_code(stmt) = "GIMPLE_ASSIGN"
  THEN /\ INTEGRAL_TYPE_P(cfun.lhs_type) \/ POINTER_TYPE_P(cfun.lhs_type)
       /\ ~stmt.has_vuse
  ELSE gimple_code(stmt) \in {"GIMPLE_COND", "GIMPLE_SWITCH"}

(* The range of an operand: the range recorded for a name, the
   singleton range of a constant. *)
get_value_range(opnd) ==
  IF opnd.code = "SSA_NAME" THEN vr_value[opnd.name]
  ELSE set("VR_RANGE", opnd, opnd)

supports_type_p(t) == INTEGRAL_TYPE_P(t) \/ POINTER_TYPE_P(t)

defined_ranges_p(vr0, vr1) == ~(vr0.kind = "VR_UNDEFINED" /\ vr1.kind = "VR_UNDEFINED")

drop_undefines_to_varying(vr, expr_type_) ==
  IF vr.kind = "VR_UNDEFINED" THEN set_varying(expr_type_) ELSE vr

(* range_operator::fold_range for PLUS_EXPR and MINUS_EXPR: the interval
   arithmetic of extract_range_from_plus_minus_expr. *)
fold_range(code, expr_type_, vr0, vr1) ==
  extract_range_from_plus_minus_expr(code, expr_type_, vr0, vr1)

(* range_fold_binary_expr: neither operand range is symbolic here. *)
range_fold_binary_expr(code, expr_type_, vr0_, vr1_) ==
  IF ~supports_type_p(expr_type_) THEN set_varying(expr_type_)
  ELSE IF ~defined_ranges_p(vr0_, vr1_) THEN set_undefined
  ELSE IF code \notin {"PLUS_EXPR", "MINUS_EXPR"} THEN set_varying(expr_type_)
  ELSE fold_range(code, expr_type_, drop_undefines_to_varying(vr0_, expr_type_),
                  drop_undefines_to_varying(vr1_, expr_type_))

(* extract_range_from_stmt for the assignment defining LHS. *)
extract_range_from_stmt(lhs) ==
  LET stmt == cfun.stmts[lhs]
  IN  range_fold_binary_expr(stmt.rhs_code, cfun.lhs_type,
                             get_value_range(stmt.operands[1]),
                             get_value_range(stmt.operands[2]))

(* extract_range_from_phi_node: the union of the ranges of the first I
   arguments that flow through executable edges. *)
RECURSIVE phi_args_range(_, _)
phi_args_range(phi, i) ==
  IF i = 0 THEN set_undefined
  ELSE Bind(phi_args_range(phi, i - 1), LAMBDA vr_result :
         IF gimple_phi_arg(phi, i).e \in executable
         THEN union_helper(vr_result, get_value_range(gimple_phi_arg(phi, i).def))
         ELSE vr_result)

extract_range_from_phi_node(lhs) ==
  phi_args_range(cfun.stmts[lhs], Len(cfun.stmts[lhs].args))

(* update_value_range: whether NEW_VR differs from the range recorded
   for NAME, NEW_VR as the caller finds it afterwards, and the range
   recorded.  A varying range stays varying, and a defined range that
   would become undefined becomes varying. *)
update_value_range(name, new_vr) ==
  LET old_vr == vr_value[name]
      varying == set_varying(cfun.lhs_type)
  IN  IF equal_p(old_vr, new_vr)
      THEN [is_new |-> FALSE, new_vr |-> new_vr, old_vr |-> old_vr]
      ELSE IF old_vr.kind = "VR_VARYING"
      THEN [is_new |-> FALSE, new_vr |-> varying, old_vr |-> old_vr]
      ELSE IF new_vr.kind = "VR_UNDEFINED"
      THEN [is_new |-> TRUE, new_vr |-> varying, old_vr |-> varying]
      ELSE [is_new |-> TRUE, new_vr |-> new_vr, old_vr |-> new_vr]

(* visit_phi returning SSA_PROP_INTERESTING for a range that did not
   change. *)
visit_phi_unchanged_interesting(lhs) ==
  Bind(update_value_range(lhs, extract_range_from_phi_node(lhs)), LAMBDA u :
    [val |-> IF u.new_vr.kind = "VR_VARYING" THEN "SSA_PROP_VARYING"
             ELSE "SSA_PROP_INTERESTING",
     vr |-> u.old_vr])

(* vrp_prop::visit_phi for the PHI node defining LHS: what it returns
   and the range recorded for LHS. *)
visit_phi(lhs) ==
  Bind(update_value_range(lhs, extract_range_from_phi_node(lhs)), LAMBDA u :
    [val |-> IF u.is_new
             THEN IF u.new_vr.kind = "VR_VARYING" THEN "SSA_PROP_VARYING"
                  ELSE "SSA_PROP_INTERESTING"
             ELSE "SSA_PROP_NOT_INTERESTING",
     vr |-> u.old_vr])

(* vrp_prop::visit_stmt for the assignment defining LHS, which
   extract_range_from_stmt makes the output. *)
visit_stmt(lhs) ==
  Bind(update_value_range(lhs, extract_range_from_stmt(lhs)), LAMBDA u :
    [val |-> IF u.is_new
             THEN IF u.new_vr.kind = "VR_VARYING" THEN "SSA_PROP_VARYING"
                  ELSE "SSA_PROP_INTERESTING"
             ELSE "SSA_PROP_NOT_INTERESTING",
     vr |-> u.old_vr])

(* Whether an edge into BLOCK is executable: the block has been simulated. *)
bb_visited(block) == \E x \in executable : x[2] = block

SolveInit ==
  /\ cfun \in Functions
  /\ vr_value = [n \in DOMAIN cfun.stmts |-> set_undefined]
  /\ simulate_again = {}
  /\ executable = {}
  /\ cfg_worklist = {}
  /\ ssa_worklist = {}
  /\ moves = {}
  /\ solve_pc = "vrp_initialize"
  (* The other components are not in use. *)
  /\ type = NULL_TREE /\ this = set_undefined /\ op = "none"
  /\ req = set_undefined /\ other = set_undefined /\ prev = set_undefined
  /\ expr_type = NULL_TREE /\ opnd0 = set_undefined /\ opnd1 = set_undefined
  /\ expr_code = "ERROR_MARK" /\ expr_vr = set_undefined /\ arith_pc = "none"
  /\ flag_strict_aliasing = FALSE /\ tbaa = FALSE /\ ao1 = NULL_TREE /\ ao2 = NULL_TREE
  /\ memory = <<>> /\ answers = <<>> /\ alias_pc = "none"
  /\ ssa = <<>> /\ clobber = {} /\ lookup = <<>> /\ translate = "absent" /\ limit = 0
  /\ budget = 0 /\ vuse = NULL /\ visited = {} /\ translated = FALSE /\ result = NULL
  /\ frames = <<>> /\ ret = <<>> /\ walk_pc = "none" /\ queries = 0 /\ looked = 0
  /\ flag_errno_math = FALSE /\ kill_stmt = NULL_TREE /\ kill_ref = NULL_TREE /\ kill_tbaa = FALSE
  /\ kills = NULL /\ clobbers = NULL /\ kill_pc = "none"
  /\ vdef_ref = NULL /\ vdef_walker = NULL /\ vdef_limit = 0 /\ vdef_supplied = "absent"
  /\ vdef_visited = <<>> /\ vdef_frames = <<>> /\ cnt = 0 /\ function_entry_reached = FALSE
  /\ walked = <<>> /\ offered = <<>> /\ vdef_ret = NULL /\ vdef_pc = "none"
  /\ fun = <<>> /\ value_hash = <<>> /\ asserts_for = <<>> /\ need_assert_for = {}
  /\ inserted = <<>> /\ assert_pc = "none"
  /\ pplus_type = NULL_TREE /\ flag_delete_null_pointer_checks = FALSE /\ pplus_vr0 = set_undefined
  /\ pplus_vr1 = set_undefined /\ pplus_vr = set_undefined /\ pplus_pc = "none"

(* vrp_prop::vrp_initialize: the statements to simulate; the definitions
   of the others are varying. *)
VrpInitialize ==
  /\ solve_pc = "vrp_initialize"
  /\ simulate_again' = {n \in DOMAIN cfun.stmts : stmt_interesting_for_vrp(cfun.stmts[n])}
  /\ vr_value' = [n \in DOMAIN cfun.stmts |->
                    IF stmt_interesting_for_vrp(cfun.stmts[n]) THEN vr_value[n]
                    ELSE set_varying(cfun.lhs_type)]
  /\ moves' = moves \cup {<<n, "VR_UNDEFINED", "VR_VARYING">> :
                            n \in {m \in DOMAIN cfun.stmts :
                                     ~stmt_interesting_for_vrp(cfun.stmts[m])}}
  /\ solve_pc' = "ssa_prop_init"
  /\ UNCHANGED <<cfun, executable, cfg_worklist, ssa_worklist>>
  /\ UNCHANGED solveRest

(* ssa_propagate, at its start: the edges out of ENTRY are to be taken. *)
SsaPropInit ==
  /\ solve_pc = "ssa_prop_init"
  /\ cfg_worklist' = {x \in cfun.edges : x[1] = "ENTRY"}
  /\ solve_pc' = "ssa_propagate"
  /\ UNCHANGED <<cfun, vr_value, simulate_again, executable, ssa_worklist, moves>>
  /\ UNCHANGED solveRest

(* The engine takes the edge X: it becomes executable, the PHI nodes of
   its destination are to be visited, and on the first entry of the
   block its statements and outgoing edges too. *)
SimulateBlock(x) ==
  /\ solve_pc = "ssa_propagate"
  /\ x \in cfg_worklist
  /\ executable' = executable \cup {x}
  /\ ssa_worklist' = ssa_worklist \cup
       {n \in simulate_again :
          /\ cfun.stmts[n].bb = x[2]
          /\ gimple_code(cfun.stmts[n]) = "GIMPLE_PHI" \/ ~bb_visited(x[2])}
  /\ cfg_worklist' = (cfg_worklist \ {x}) \cup
       (IF bb_visited(x[2]) THEN {}
        ELSE {y \in cfun.edges : y[1] = x[2] /\ y # x})
  /\ UNCHANGED <<cfun, vr_value, simulate_again, moves, solve_pc>>
  /\ UNCHANGED solveRest

(* simulate_stmt after the visit of the statement defining NAME returned
   V: the range is recorded, a varying statement is not simulated again,
   and for a new range the uses in blocks entered are to be visited. *)
simulate_stmt(name, v) ==
  /\ vr_value' = [vr_value EXCEPT ![name] = v.vr]
  /\ moves' = IF v.vr = vr_value[name] THEN moves
              ELSE moves \cup {<<name, vr_value[name].kind, v.vr.kind>>}
  /\ simulate_again' = IF v.val = "SSA_PROP_VARYING" THEN simulate_again \ {name}
                       ELSE simulate_again
  /\ ssa_worklist' = (ssa_worklist \ {name}) \cup
       (IF v.val = "SSA_PROP_NOT_INTERESTING" THEN {}
        ELSE {u \in immediate_uses(name) :
                u \in simulate_again' /\ bb_visited(cfun.stmts[u].bb)})
  /\ UNCHANGED <<cfun, executable, cfg_worklist, solve_pc>>

(* The engine visits a PHI node of the worklist. *)
VisitPhi(name) ==
  /\ solve_pc = "ssa_propagate"
  /\ name \in ssa_worklist
  /\ gimple_code(cfun.stmts[name]) = "GIMPLE_PHI"
  /\ Bind(visit_phi(name), LAMBDA v : simulate_stmt(name, v))
  /\ UNCHANGED solveRest

(* The engine visits a statement of the worklist. *)
VisitStmt(name) ==
  /\ solve_pc = "ssa_propagate"
  /\ name \in ssa_worklist
  /\ gimple_code(cfun.stmts[name]) # "GIMPLE_PHI"
  /\ Bind(visit_stmt(name), LAMBDA v : simulate_stmt(name, v))
  /\ UNCHANGED solveRest

(* ssa_propagate returns: both worklists are empty. *)
SsaPropagateDone ==
  /\ solve_pc = "ssa_propagate"
  /\ cfg_worklist = {}
  /\ ssa_worklist = {}
  /\ solve_pc' = "done"
  /\ UNCHANGED <<cfun, vr_value, simulate_again, executable, cfg_worklist, ssa_worklist, moves>>
  /\ UNCHANGED solveRest

SolveNext ==
  \/ VrpInitialize
  \/ SsaPropInit
  \/ \E x \in cfg_worklist : SimulateBlock(x)
  \/ \E name \in ssa_worklist : VisitPhi(name)
  \/ \E name \in ssa_worklist : VisitStmt(name)
  \/ SsaPropagateDone

SpecSolve == SolveInit /\ [][SolveNext]_vars

(* A step of the pass is possible until ssa_propagate has returned: one
   of the worklists holds something to take, or both are empty and the
   engine returns. *)
solve_enabled == solve_pc # "done"

(* The pass is one sequential computation: it always takes its next
   step.  This is weak fairness of SolveNext, with its enabling
   condition written as the state predicate above. *)
SpecSolveFair ==
  /\ SolveInit
  /\ [][SolveNext]_vars
  /\ ([]<>(~solve_enabled) \/ []<><<SolveNext>>_vars)

(* ------------------------------------------------------------------ *)
(* The range assertions: registration, insertion and removal.          *)
(* ------------------------------------------------------------------ *)

(* A null edge, and the iterator gsi_none (): an iterator is <<>> at
   the end and holds the uid of its statement otherwise. *)
no_edge == <<>>

gsi_none == <<>>

gsi_end_p(si) == si = <<>>

(* Statements over the versions of SSA names; a condition has no lhs. *)
gimple_load(uid, lhs) ==
  [uid |-> uid, code |-> "GIMPLE_ASSIGN", rhs_code |-> "MEM_REF", lhs |-> lhs, ops |-> <<>>]

gimple_copy(uid, lhs, nm) ==
  [uid |-> uid, code |-> "GIMPLE_ASSIGN", rhs_code |-> "SSA_NAME", lhs |-> lhs, ops |-> <<nm>>]

gimple_cond(uid, nm) ==
  [uid |-> uid, code |-> "GIMPLE_COND", rhs_code |-> "NE_EXPR", lhs |-> 0, ops |-> <<nm>>]

(* bb2: x_1 = *p; switch (x_1) to bb3, bb4 or bb5;  bb3: if (x_1) to
   bb4 or bb5;  bb4: y_2 = x_1, then bb5;  bb5: z_3 = x_1.  Block 0 is
   the entry and block 1 the exit; bb2 dominates the others. *)
two_branches ==
  [stmts |-> [b \in 0 .. 5 |->
                IF b = 2 THEN <<gimple_load(1, 1), gimple_cond(2, 1)>>
                ELSE IF b = 3 THEN <<gimple_cond(3, 1)>>
                ELSE IF b = 4 THEN <<gimple_copy(4, 2, 1)>>
                ELSE IF b = 5 THEN <<gimple_copy(5, 3, 1)>>
                ELSE <<>>],
   edges |-> {<<0, 2>>, <<2, 3>>, <<2, 4>>, <<2, 5>>, <<3, 4>>, <<3, 5>>, <<4, 5>>, <<5, 1>>},
   idom |-> [b \in 0 .. 5 |-> IF b = 2 THEN 0 ELSE IF b \in {3, 4, 5} THEN 2 ELSE b],
   pending |-> <<>>,
   num_ssa_names |-> 4,
   uids |-> 6]

(* The name the assertions are about. *)
x_1 == ssa_operand(1)

integer_one_node == integer_cst(integer_type_node, 1)

(* The facts x_1 < 0, x_1 < 1 and x_1 > 0. *)
Facts ==
  {[comp_code |-> "LT_EXPR", val |-> integer_zero_node, expr |-> x_1],
   [comp_code |-> "LT_EXPR", val |-> integer_one_node, expr |-> x_1],
   [comp_code |-> "GT_EXPR", val |-> integer_zero_node, expr |-> x_1]}

(* The order of the comparison codes in enum tree_code. *)
tree_code_index == [LT_EXPR |-> 0, LE_EXPR |-> 1, GT_EXPR |-> 2, GE_EXPR |-> 3]

(* The places of an assertion: after a statement of a block, or on an
   edge out of a block that ends in a condition. *)
Places ==
  {[bb |-> <<2>>, e |-> no_edge, si |-> <<1>>],
   [bb |-> <<>>, e |-> <<2, 3>>, si |-> <<2>>], [bb |-> <<>>, e |-> <<2, 4>>, si |-> <<2>>],
   [bb |-> <<>>, e |-> <<2, 5>>, si |-> <<2>>], [bb |-> <<>>, e |-> <<3, 4>>, si |-> <<3>>]}

(* The most loci registered for the name. *)
MaxLoci == 3

preds(f, bb) == {e \in f.edges : e[2] = bb}

succs(f, bb) == {e \in f.edges : e[1] = bb}

EDGE_COUNT(ev) == Cardinality(ev)

EDGE_CRITICAL_P(e) == EDGE_COUNT(succs(fun, e[1])) >= 2 /\ EDGE_COUNT(preds(fun, e[2])) >= 2

(* dominated_by_p (CDI_DOMINATORS, bb1, bb2) on the blocks of fun. *)
RECURSIVE block_dominated_by_p(_, _)
block_dominated_by_p(bb1, bb2) ==
  IF bb1 = bb2 THEN TRUE
  ELSE IF fun.idom[bb1] = bb1 THEN FALSE
  ELSE block_dominated_by_p(fun.idom[bb1], bb2)

(* The test of register_new_assert_for for the same assertion. *)
same_assert_p(loc, comp_code, val, expr) ==
  /\ loc.comp_code = comp_code
  /\ (loc.val = val \/ operand_equal_p(loc.val, val))
  /\ (loc.expr = expr \/ operand_equal_p(loc.expr, expr))

(* register_new_assert_for (name, expr, comp_code, val, bb, e, si) on
   the list LOCS of the name: the first locus of the same assertion
   that DEST_BB dominates is moved, unless E is critical; otherwise a
   new locus is added at the end. *)
register_new_assert_for(locs, expr, comp_code, val, bb, e, si) ==
  LET dest_bb == IF bb # <<>> THEN bb[1] ELSE e[2]
      moved   == {i \in DOMAIN locs :
                    /\ same_assert_p(locs[i], comp_code, val, expr)
                    /\ (e = no_edge \/ ~EDGE_CRITICAL_P(e))
                    /\ block_dominated_by_p(locs[i].bb, dest_bb)}
      n       == [bb |-> dest_bb, e |-> e, si |-> si, comp_code |-> comp_code,
                  val |-> val, expr |-> expr]
  IN  IF moved # {}
      THEN LET i == CHOOSE i \in moved : \A k \in moved : i <= k
           IN  [locs EXCEPT ![i] = [@ EXCEPT !.bb = dest_bb, !.e = e, !.si = si]]
      ELSE Append(locs, n)

(* iterative_hash_expr: the hashes of different operands are different,
   and the hashes of the constants are in either order. *)
iterative_hash_expr(t, seed) ==
  seed + seed + seed + (IF t.code = "INTEGER_CST" THEN value_hash[t.val] ELSE 0)

(* compare_assert_loc <stable> on two entries of the vector: an entry
   is <<>> when it is null and holds its locus otherwise. *)
compare_assert_loc(stable, pa, pb) ==
  IF stable /\ pa = <<>> THEN (IF pb # <<>> THEN 1 ELSE 0)
  ELSE IF stable /\ pb = <<>> THEN -1
  ELSE LET a  == pa[1]
           b  == pb[1]
           ha == IF stable THEN 0
                 ELSE iterative_hash_expr(a.expr, iterative_hash_expr(a.val, 0))
           hb == IF stable THEN 0
                 ELSE iterative_hash_expr(b.expr, iterative_hash_expr(b.val, 0))
       IN  IF a.e = no_edge /\ b.e # no_edge THEN 1
           ELSE IF a.e # no_edge /\ b.e = no_edge THEN -1
           ELSE IF a.e # no_edge /\ a.e[2] > b.e[2] THEN 1
           ELSE IF a.e # no_edge /\ a.e[2] < b.e[2] THEN -1
           ELSE IF tree_code_index[a.comp_code] > tree_code_index[b.comp_code] THEN 1
           ELSE IF tree_code_index[a.comp_code] < tree_code_index[b.comp_code] THEN -1
           ELSE IF ha = hb
                THEN (IF a.e # no_edge THEN a.e[1] - b.e[1] ELSE a.bb - b.bb)
           ELSE IF ha > hb THEN 1 ELSE -1

(* The vector S, which is sorted, with the entry X put in anywhere that
   leaves it sorted. *)
qsort_insert(s, x, stable) ==
  {SubSeq(s, 1, i) \o <<x>> \o SubSeq(s, i + 1, Len(s)) :
     i \in {k \in 0 .. Len(s) :
              /\ \A m \in 1 .. k : compare_assert_loc(stable, s[m], x) <= 0
              /\ \A m \in (k + 1) .. Len(s) : compare_assert_loc(stable, x, s[m]) <= 0}}

(* The orders qsort may leave the vector in: every arrangement in which
   no entry is after one it compares less than. *)
RECURSIVE qsort(_, _)
qsort(v, stable) ==
  IF v = <<>> THEN {<<>>}
  ELSE UNION {qsort_insert(s, Head(v), stable) : s \in qsort(Tail(v), stable)}

(* The assertion is on the edge of the entry before it. *)
duplicate_assert_src_dest_p(loc, before) == loc.e[1] = before.e[2]

duplicate_assert_p(loc, before) == loc.e = before.e

(* The loop of process_assert_insertions that pushes common assertions
   down to the successor and removes the redundant ones, from entry J
   on; ST holds the vector, ecnt, common and commonj. *)
RECURSIVE push_down_common_asserts(_, _)
push_down_common_asserts(st, j) ==
  IF j > Len(st.asserts) THEN st.asserts
  ELSE LET loc == st.asserts[j][1]
       IN  IF loc.e = no_edge
           THEN push_down_common_asserts([st EXCEPT !.common = <<>>], j + 1)
           ELSE IF \/ st.common = <<>>
                   \/ loc.e[2] # st.common[1].e[2]
                   \/ loc.comp_code # st.common[1].comp_code
                   \/ ~operand_equal_p(loc.val, st.common[1].val)
                   \/ ~operand_equal_p(loc.expr, st.common[1].expr)
           THEN push_down_common_asserts(
                  [st EXCEPT !.commonj = j, !.common = <<loc>>, !.ecnt = 1], j + 1)
           ELSE IF duplicate_assert_p(loc, st.asserts[j - 1][1])
           THEN push_down_common_asserts(
                  [asserts |-> [st.asserts EXCEPT ![j - 1] = <<>>],
                   ecnt    |-> st.ecnt,
                   common  |-> IF st.commonj = j - 1 THEN <<loc>> ELSE st.common,
                   commonj |-> IF st.commonj = j - 1 THEN j ELSE st.commonj], j + 1)
           ELSE IF EDGE_COUNT(preds(fun, st.common[1].e[2])) = st.ecnt + 1
           THEN push_down_common_asserts(
                  [asserts |-> [i \in DOMAIN st.asserts |->
                                  IF i = j
                                  THEN <<[loc EXCEPT !.bb = loc.e[2], !.e = no_edge,
                                                     !.si = gsi_none]>>
                                  ELSE IF st.commonj <= i /\ i < j THEN <<>>
                                  ELSE st.asserts[i]],
                   ecnt    |-> st.ecnt + 1,
                   common  |-> <<>>,
                   commonj |-> j], j + 1)
           ELSE push_down_common_asserts([st EXCEPT !.ecnt = st.ecnt + 1], j + 1)

(* build_assert_expr_for: N = ASSERT_EXPR <V, EXPR COMP_CODE VAL> with
   a new name N. *)
build_assert_expr_for(f, loc, v) ==
  [uid |-> f.uids, code |-> "GIMPLE_ASSIGN", rhs_code |-> "ASSERT_EXPR",
   lhs |-> f.num_ssa_names, ops |-> <<v, loc.expr.name>>,
   comp_code |-> loc.comp_code, val |-> loc.val]

stmt_ends_bb_p(stmt) == stmt.code = "GIMPLE_COND"

gsi_insert_on_edge(f, e, stmt) == [f EXCEPT !.pending = Append(@, [e |-> e, stmt |-> stmt])]

(* The statements of a block with STMT after the one SI is at. *)
gsi_insert_after(seq, si, stmt) ==
  LET i == CHOOSE i \in DOMAIN seq : seq[i].uid = si[1]
  IN  SubSeq(seq, 1, i) \o <<stmt>> \o SubSeq(seq, i + 1, Len(seq))

gsi_stmt(f, bb, si) == LET i == CHOOSE i \in DOMAIN f.stmts[bb] : f.stmts[bb][i].uid = si[1] IN f.stmts[bb][i]

(* process_assert_insertions_for (name, loc) on the function F. *)
process_assert_insertions_for(f, v, loc) ==
  IF loc.expr = loc.val THEN f
  ELSE LET assert_stmt == build_assert_expr_for(f, loc, v)
           g == [f EXCEPT !.num_ssa_names = @ + 1, !.uids = @ + 1]
       IN  IF loc.e # no_edge THEN gsi_insert_on_edge(g, loc.e, assert_stmt)
           ELSE IF gsi_end_p(loc.si)
           THEN [g EXCEPT !.stmts[loc.bb] = <<assert_stmt>> \o @]
           ELSE IF ~stmt_ends_bb_p(gsi_stmt(f, loc.bb, loc.si))
           THEN [g EXCEPT !.stmts[loc.bb] = gsi_insert_after(@, loc.si, assert_stmt)]
           ELSE gsi_insert_on_edge(g, CHOOSE e \in succs(f, loc.bb) : TRUE, assert_stmt)

(* The insertions for the entries of the sorted vector up to the first
   null entry. *)
RECURSIVE insert_asserts(_, _, _)
insert_asserts(f, v, j) ==
  IF j > Len(v) THEN f
  ELSE IF v[j] = <<>> THEN f
  ELSE insert_asserts(process_assert_insertions_for(f, x_1.name, v[j][1]), v, j + 1)

(* The block made for the edge E when it has been split, or none. *)
split_block(f, e) == {b \in DOMAIN f.stmts : b >= EDGE_COUNT(DOMAIN two_branches.stmts) /\ <<e[1], b>> \in f.edges /\ <<b, e[2]>> \in f.edges}

(* gsi_commit_edge_inserts: a critical edge is split and the statement
   goes to the new block; otherwise it goes to the start of the
   destination. *)
RECURSIVE gsi_commit_edge_inserts(_)
gsi_commit_edge_inserts(f) ==
  IF f.pending = <<>> THEN f
  ELSE LET e    == f.pending[1].e
           stmt == f.pending[1].stmt
           rest == [f EXCEPT !.pending = Tail(@)]
           made == split_block(f, e)
           nb   == EDGE_COUNT(DOMAIN f.stmts)
       IN  IF made # {}
           THEN gsi_commit_edge_inserts(
                  [rest EXCEPT !.stmts[CHOOSE b \in made : TRUE] = Append(@, stmt)])
           ELSE IF EDGE_CRITICAL_P(e)
           THEN gsi_commit_edge_inserts(
                  [rest EXCEPT !.stmts = [b \in DOMAIN f.stmts \cup {nb} |->
                                            IF b = nb THEN <<stmt>> ELSE f.stmts[b]],
                               !.idom = [b \in DOMAIN f.stmts \cup {nb} |->
                                            IF b = nb THEN e[1] ELSE f.idom[b]],
                               !.edges = (@ \ {e}) \cup {<<e[1], nb>>, <<nb, e[2]>>}])
           ELSE gsi_commit_edge_inserts([rest EXCEPT !.stmts[e[2]] = <<stmt>> \o @])

is_assert_expr(stmt) == stmt.code = "GIMPLE_ASSIGN" /\ stmt.rhs_code = "ASSERT_EXPR"

(* The assertions of the function, as block and position. *)
assert_exprs(f) ==
  {bi \in (DOMAIN f.stmts) \X (1 .. f.uids) :
     bi[2] \in DOMAIN f.stmts[bi[1]] /\ is_assert_expr(f.stmts[bi[1]][bi[2]])}

(* The names update_ssa replaces: those an assertion is about. *)
names_to_replace(f) == {f.stmts[bi[1]][bi[2]].ops[1] : bi \in assert_exprs(f)}

(* The definition of V or of a replacement of V that reaches statement
   I of block BB: the last one before it in the block, or the one that
   reaches the end of the immediate dominator. *)
RECURSIVE reaching_def(_, _, _, _)
reaching_def(f, v, bb, i) ==
  LET defs == {k \in DOMAIN f.stmts[bb] :
                 /\ k < i
                 /\ \/ f.stmts[bb][k].lhs = v
                    \/ is_assert_expr(f.stmts[bb][k]) /\ f.stmts[bb][k].ops[1] = v}
  IN  IF defs # {}
      THEN f.stmts[bb][CHOOSE k \in defs : \A m \in defs : m <= k].lhs
      ELSE IF f.idom[bb] = bb THEN v
      ELSE reaching_def(f, v, f.idom[bb], Len(f.stmts[f.idom[bb]]) + 1)

(* update_ssa (TODO_update_ssa_no_phi): every use of a replaced name
   becomes a use of its reaching definition. *)
update_ssa(f) ==
  [f EXCEPT !.stmts =
     [bb \in DOMAIN f.stmts |->
        [i \in DOMAIN f.stmts[bb] |->
           [f.stmts[bb][i] EXCEPT !.ops =
              [k \in DOMAIN f.stmts[bb][i].ops |->
                 IF f.stmts[bb][i].ops[k] \in names_to_replace(f)
                 THEN reaching_def(f, f.stmts[bb][i].ops[k], bb, i)
                 ELSE f.stmts[bb][i].ops[k]]]]]]

(* SET_USE (use_p, var) for every use of LHS. *)
propagate_into_uses(stmts, lhs, var) ==
  [bb \in DOMAIN stmts |->
     [i \in DOMAIN stmts[bb] |->
        [stmts[bb][i] EXCEPT !.ops = [k \in DOMAIN stmts[bb][i].ops |->
                                        IF stmts[bb][i].ops[k] = lhs THEN var
                                        ELSE stmts[bb][i].ops[k]]]]]

(* The uses of the results are left as they are. *)
remove_range_assertions_only(f) ==
  [f EXCEPT !.stmts =
     [bb \in DOMAIN f.stmts |->
        SelectSeq(f.stmts[bb], LAMBDA s : ~is_assert_expr(s))]]

(* remove_range_assertions: block after block and statement after
   statement, the variable of an assertion is propagated into every use
   of its result and the assertion is removed. *)
RECURSIVE remove_range_assertions(_)
remove_range_assertions(f) ==
  IF assert_exprs(f) = {} THEN f
  ELSE LET bi   == CHOOSE bi \in assert_exprs(f) :
                     \A ck \in assert_exprs(f) :
                        bi[1] < ck[1] \/ (bi[1] = ck[1] /\ bi[2] <= ck[2])
           stmt == f.stmts[bi[1]][bi[2]]
           used == propagate_into_uses(f.stmts, stmt.lhs, stmt.ops[1])
       IN  remove_range_assertions(
             [f EXCEPT !.stmts = [used EXCEPT ![bi[1]] =
                                    SubSeq(@, 1, bi[2] - 1) \o SubSeq(@, bi[2] + 1, Len(@))]])

(* insert_range_assertions starts with no assertion registered. *)
AssertInit ==
  /\ fun = two_branches
  /\ value_hash \in {h \in [{0, 1} -> {1, 2}] : h[0] # h[1]}
  /\ asserts_for = <<>>
  /\ need_assert_for = {}
  /\ inserted = <<>>
  /\ assert_pc = "find"
  (* The other components are not in use. *)
  /\ type = NULL_TREE /\ this = set_undefined /\ op = "none"
  /\ req = set_undefined /\ other = set_undefined /\ prev = set_undefined
  /\ expr_type = NULL_TREE /\ opnd0 = set_undefined /\ opnd1 = set_undefined
  /\ expr_code = "ERROR_MARK" /\ expr_vr = set_undefined /\ arith_pc = "none"
  /\ flag_strict_aliasing = FALSE /\ tbaa = FALSE /\ ao1 = NULL_TREE /\ ao2 = NULL_TREE
  /\ memory = <<>> /\ answers = <<>> /\ alias_pc = "none"
  /\ ssa = <<>> /\ clobber = {} /\ lookup = <<>> /\ translate = "absent" /\ limit = 0
  /\ budget = 0 /\ vuse = NULL /\ visited = {} /\ translated = FALSE /\ result = NULL
  /\ frames = <<>> /\ ret = <<>> /\ walk_pc = "none" /\ queries = 0 /\ looked = 0
  /\ cfun = <<>> /\ vr_value = <<>> /\ simulate_again = {} /\ executable = {}
  /\ cfg_worklist = {} /\ ssa_worklist = {} /\ moves = {} /\ solve_pc = "none"
  /\ flag_errno_math = FALSE /\ kill_stmt = NULL_TREE /\ kill_ref = NULL_TREE /\ kill_tbaa = FALSE
  /\ kills = NULL /\ clobbers = NULL /\ kill_pc = "none"
  /\ vdef_ref = NULL /\ vdef_walker = NULL /\ vdef_limit = 0 /\ vdef_supplied = "absent"
  /\ vdef_visited = <<>> /\ vdef_frames = <<>> /\ cnt = 0 /\ function_entry_reached = FALSE
  /\ walked = <<>> /\ offered = <<>> /\ vdef_ret = NULL /\ vdef_pc = "none"
  /\ pplus_type = NULL_TREE /\ flag_delete_null_pointer_checks = FALSE /\ pplus_vr0 = set_undefined
  /\ pplus_vr1 = set_undefined /\ pplus_vr = set_undefined /\ pplus_pc = "none"

(* find_assert_locations registers an assertion for the name. *)
RegisterNewAssertFor ==
  /\ assert_pc = "find"
  /\ Len(asserts_for) < MaxLoci
  /\ \E fact \in Facts, place \in Places :
       /\ asserts_for' = register_new_assert_for(asserts_for, fact.expr, fact.comp_code,
                                                 fact.val, place.bb, place.e, place.si)
       /\ need_assert_for' = IF Len(asserts_for') > Len(asserts_for)
                             THEN need_assert_for \cup {x_1.name}
                             ELSE need_assert_for
  /\ UNCHANGED <<fun, value_hash, inserted, assert_pc>>
  /\ UNCHANGED assertRest

(* process_assert_insertions: the loci are sorted, the common and the
   redundant ones are removed, the vector is sorted again, the
   assertions are inserted and the insertions on edges are committed. *)
ProcessAssertInsertions ==
  /\ assert_pc = "find"
  /\ need_assert_for # {}
  /\ \E sorted \in qsort([i \in DOMAIN asserts_for |-> <<asserts_for[i]>>], FALSE) :
       \E final \in qsort(push_down_common_asserts(
                            [asserts |-> sorted, ecnt |-> 0, common |-> <<>>, commonj |-> 1],
                            1), TRUE) :
         /\ inserted' = SelectSeq(final, LAMBDA p : p # <<>>)
         /\ fun' = gsi_commit_edge_inserts(insert_asserts(fun, final, 1))
  /\ assert_pc' = "inserted"
  /\ UNCHANGED <<value_hash, asserts_for, need_assert_for>>
  /\ UNCHANGED assertRest

(* insert_range_assertions updates the SSA form and frees the lists. *)
UpdateSsa ==
  /\ assert_pc = "inserted"
  /\ fun' = update_ssa(fun)
  /\ asserts_for' = <<>>
  /\ need_assert_for' = {}
  /\ assert_pc' = "solve"
  /\ UNCHANGED <<value_hash, inserted>>
  /\ UNCHANGED assertRest

(* insert_range_assertions when no assertion is needed. *)
NoAssertNeeded ==
  /\ assert_pc = "find"
  /\ need_assert_for = {}
  /\ assert_pc' = "solve"
  /\ UNCHANGED <<fun, value_hash, asserts_for, need_assert_for, inserted>>
  /\ UNCHANGED assertRest

RemoveRangeAssertions ==
  /\ assert_pc = "solve"
  /\ fun' = remove_range_assertions(fun)
  /\ assert_pc' = "removed"
  /\ UNCHANGED <<value_hash, asserts_for, need_assert_for, inserted>>
  /\ UNCHANGED assertRest

AssertNext ==
  \/ RegisterNewAssertFor
  \/ ProcessAssertInsertions
  \/ UpdateSsa
  \/ NoAssertNeeded
  \/ RemoveRangeAssertions

SpecAssert == AssertInit /\ [][AssertNext]_vars

(* ------------------------------------------------------------------ *)
(* Properties of the alias oracle.                                     *)
(* ------------------------------------------------------------------ *)

(* C1: for two references whose concrete storage overlaps,
   refs_may_alias_p_1 returns true, whatever their bases and whatever
   the tbaa flag.  The oracle does not have this property: with tbaa and
   -fstrict-aliasing it answers false for q->array[i] against *p, p
   pointing at that element, because aliasing_component_refs_p skips
   its second walk there. *)
C1_OverlapMayAlias ==
  (Len(answers) >= 1 /\ storage_overlap(ao1.ref, ao2.ref, memory)) => answers[1]

(* C2: refs_may_alias_p_1 (a, b, tbaa) and refs_may_alias_p_1 (b, a, tbaa)
   return the same boolean.  The oracle does not have this property: the
   guard of the second walk of aliasing_component_refs_p is not the
   mirror image of the guard of the first. *)
C2_Symmetric ==
  Len(answers) = 2 => answers[1] = answers[2]

both_volatile == TREE_THIS_VOLATILE(ao1.ref) /\ TREE_THIS_VOLATILE(ao2.ref)

different_variables == VAR_P(ao1.base) /\ VAR_P(ao2.base) /\ ao1.base # ao2.base

(* A base that is no memory: a register or a constant. *)
register_or_constant(b) ==
  b.code \in {"SSA_NAME", "CONST_DECL", "CONSTRUCTOR", "ADDR_EXPR"} \/ CONSTANT_CLASS_P(b)

function_or_label(b) == b.code \in {"FUNCTION_DECL", "LABEL_DECL"}

(* C11, as stated: for two references whose bases are two different
   variables, refs_may_alias_p_1 returns false, whatever their offsets,
   sizes and qualifiers. *)
C11_DifferentVariablesNoAlias ==
  \A k \in DOMAIN answers : different_variables => ~answers[k]

(* C11, amended: for two references whose bases are two different
   variables, refs_may_alias_p_1 returns false, whatever their offsets
   and sizes, unless both references are volatile; it returns true when
   both are. *)
C11_DifferentVariablesNoAliasUnlessVolatile ==
  \A k \in DOMAIN answers : different_variables => (answers[k] <=> both_volatile)

(* The whole of a against b.a.j, whose offset within b lies within the
   extent of a, neither volatile: no alias, in both orders. *)
C11_Witness ==
  /\ alias_pc = "done"
  /\ ao1.ref = var_a
  /\ ao2.ref = build_component_ref(build_component_ref(var_b, field_a), field_j)
  /\ ranges_maybe_overlap_p(ao1.offset, ao1.max_size, ao2.offset, ao2.max_size)
  /\ answers = <<FALSE, FALSE>>

(* C12, as stated: when both references are volatile,
   refs_may_alias_p_1 returns true, for every combination of the kinds of
   their bases. *)
C12_VolatileMayAlias ==
  \A k \in DOMAIN answers : both_volatile => answers[k]

(* C12, amended: when both references are volatile and neither base is
   a register or a constant, refs_may_alias_p_1 returns true; when a
   base is a register or a constant it returns false, volatile or not. *)
C12_VolatileMayAliasMemory ==
  \A k \in DOMAIN answers :
    /\ (both_volatile /\ ~register_or_constant(ao1.base) /\ ~register_or_constant(ao2.base))
         => answers[k]
    /\ (register_or_constant(ao1.base) \/ register_or_constant(ao2.base)) => ~answers[k]

(* Volatile accesses to a field of a and to a field of b: may alias. *)
C12_Witness ==
  /\ alias_pc = "done"
  /\ both_volatile
  /\ ao1.base = var_a /\ ao2.base = var_b
  /\ answers = <<TRUE, TRUE>>

(* C13, as stated: when the base of one reference is an SSA name,
   refs_may_alias_p_1 returns true, unless the base of the other is a
   function or a label, and then it returns false. *)
C13_RegisterMayAlias ==
  \A k \in DOMAIN answers :
    (ao1.base.code = "SSA_NAME" \/ ao2.base.code = "SSA_NAME")
      => (answers[k] <=> ~(function_or_label(ao1.base) \/ function_or_label(ao2.base)))

(* C13, amended: when the base of one reference is an SSA name,
   refs_may_alias_p_1 returns false, whatever the base of the other;
   when a base is a function or a label and neither base is a register
   or a constant, it returns true. *)
C13_RegisterNoAlias ==
  \A k \in DOMAIN answers :
    /\ (ao1.base.code = "SSA_NAME" \/ ao2.base.code = "SSA_NAME") => ~answers[k]
    /\ ( /\ function_or_label(ao1.base) \/ function_or_label(ao2.base)
         /\ ~register_or_constant(ao1.base) /\ ~register_or_constant(ao2.base) )
         => answers[k]

(* The register i_5 against a field of a: no alias, in both orders. *)
C13_Witness ==
  /\ alias_pc = "done"
  /\ ao1.ref = idx_i
  /\ ao2.ref = build_component_ref(var_a, field_i)
  /\ answers = <<FALSE, FALSE>>

(* ------------------------------------------------------------------ *)
(* Properties of kill and clobber.                                     *)
(* ------------------------------------------------------------------ *)

(* C14, as stated: whenever stmt_kills_ref_p (s, r) is true,
   stmt_may_clobber_ref_p (s, r) is true, for stores and for every
   builtin call stmt_kills_ref_p handles. *)
C14_KillsImpliesMayClobber ==
  (kill_pc = "done" /\ kills = TRUE) => clobbers = TRUE

(* The statement assigns to memory, and TBAA is not asked or does not
   tell the value assigned to from the reference. *)
store_not_disambiguated_by_tbaa ==
  /\ gimple_has_lhs(kill_stmt) /\ TREE_CODE(gimple_get_lhs(kill_stmt)) # "SSA_NAME"
  /\ \/ ~kill_tbaa \/ ~flag_strict_aliasing
     \/ alias_sets_conflict_p(get_alias_set(gimple_get_lhs(kill_stmt)),
                              get_alias_set(kill_ref))

(* C14, amended: whenever stmt_kills_ref_p (s, r) is true,
   stmt_may_clobber_ref_p (s, r, tbaa_p) is true, for a call to free, to
   va_end and to the memory and string builtins, and for a statement
   assigning to memory unless tbaa_p and -fstrict-aliasing are set and
   the alias sets of the two accesses do not conflict; a call to calloc
   that kills the reference does not clobber it. *)
C14_KillsImpliesMayClobberButCalloc ==
  (kill_pc = "done" /\ kills = TRUE) =>
    /\ ( /\ is_gimple_call(kill_stmt)
         /\ kill_stmt.fndecl \in mem_builtins \cup {"BUILT_IN_FREE", "BUILT_IN_VA_END"} )
         => clobbers = TRUE
    /\ store_not_disambiguated_by_tbaa => clobbers = TRUE
    /\ (is_gimple_call(kill_stmt) /\ kill_stmt.fndecl = "BUILT_IN_CALLOC")
         => clobbers = FALSE

(* memset (p, 0, 8) kills and clobbers the int at p + 4. *)
C14_Witness ==
  /\ kill_pc = "done"
  /\ is_gimple_call(kill_stmt) /\ kill_stmt.fndecl = "BUILT_IN_MEMSET"
  /\ kill_ref = build_mem_ref(ptr_p, 4)
  /\ kills = TRUE /\ clobbers = TRUE

(* C29: stmt_kills_ref_p leaves the statement and the reference as they
   were: every operand 0 it set to zero for a comparison is restored. *)
C29_OperandsRestored ==
  [][kill_pc = "kills" => (kill_stmt' = kill_stmt /\ kill_ref' = kill_ref)]_vars

(* stmt_kills_ref_p has run on a store to a component and a reference of
   two components, of which it has zeroed, compared and dropped the
   outer one. *)
C29_Witness ==
  /\ kill_pc # "kills"
  /\ gimple_has_lhs(kill_stmt) /\ ~stmt_can_throw_internal(kill_stmt)
  /\ handled_component_p(gimple_get_lhs(kill_stmt))
  /\ handled_component_p(kill_ref) /\ handled_component_p(kill_ref.op0)
  /\ ~operand_equal_p_flags([gimple_get_lhs(kill_stmt) EXCEPT !.op0 = integer_zero_node],
                            [kill_ref EXCEPT !.op0 = integer_zero_node], FALSE)

(* ------------------------------------------------------------------ *)
(* Properties of the walk over the virtual use-def chain.              *)
(* ------------------------------------------------------------------ *)

num_phis == Cardinality({n \in DOMAIN ssa.defs : ssa.defs[n].code = "GIMPLE_PHI"})

(* C6: walk_non_aliased_vuses called with budget N terminates, also when
   the PHI nodes form a cycle, and the number of definitions it steps
   over is bounded by a linear function of N: at most N statements, one
   alias query each, and each PHI node of the function at most once. *)
C6_WalkTerminates ==
  /\ <>(walk_pc = "done")
  /\ [](queries <= budget /\ looked <= num_phis)

(* The walk has ended in the irreducible region, after it has looked
   through both PHI nodes of the cycle and used up its budget. *)
C6_Witness ==
  /\ walk_pc = "done"
  /\ ssa = irreducible
  /\ looked = num_phis
  /\ budget > 0 /\ queries = budget

(* The loop of walk_non_aliased_vuses is at a virtual use the walker
   does not answer at and a statement defines. *)
at_statement ==
  /\ walk_pc = "walk"
  /\ walker(vuse) = NULL
  /\ SSA_NAME_DEF_STMT(vuse).code = "GIMPLE_ASSIGN"

(* C7 as stated: once LIMIT has reached zero no further definition is
   stepped over and no result other than NULL is returned. *)
C7_StopsAtZero ==
  [][(budget > 0 /\ limit = 0) => /\ queries' = queries
                                  /\ looked' = looked
                                  /\ (walk_pc' = "done" => result' = NULL)]_vars

(* C7, amended: once LIMIT is zero no further alias query is made, and
   the walk returns NULL when it comes to a statement it would have to
   step over; the walker is still asked at the virtual uses reached and
   PHI nodes are still looked through. *)
C7_NoQueryAtZero ==
  [][limit = 0 => /\ queries' = queries
                  /\ limit' = 0
                  /\ (at_statement => walk_pc' = "done" /\ result' = NULL)]_vars

(* The walk has used up a budget that was not zero and has returned NULL
   at a statement that does not clobber the reference. *)
C7_Witness ==
  /\ walk_pc = "done"
  /\ budget > 0 /\ limit = 0
  /\ vuse # NULL
  /\ walker(vuse) = NULL
  /\ SSA_NAME_DEF_STMT(vuse).code = "GIMPLE_ASSIGN"
  /\ ~stmt_may_clobber_ref_p_1(vuse)
  /\ result = NULL

(* The walk from a PHI argument stands at a PHI node that is in the
   visited set. *)
at_visited_phi ==
  /\ skip_goes_on
  /\ SSA_NAME_DEF_STMT(callee.vuse).code = "GIMPLE_PHI"
  /\ bitmap_bit_p(visited, callee.vuse)

(* C15, as stated: when the walk from a PHI argument reaches a PHI node
   that is in the visited set, maybe_skip_until returns true, in every
   state of the enclosing walk. *)
C15_VisitedPhiSucceeds ==
  [][at_visited_phi => (walk_pc' = "return" /\ ret'.ok)]_vars

(* C15, amended: when the walk from a PHI argument reaches a PHI node
   that is in the visited set, maybe_skip_until returns true if the
   enclosing walk has not translated the reference, and false if it has. *)
C15_VisitedPhiSucceedsUnlessTranslated ==
  [][at_visited_phi => (walk_pc' = "return" /\ (ret'.ok <=> ~translated))]_vars

(* After a translation, the walk from a PHI argument stands at a
   visited PHI node. *)
C15_Witness ==
  /\ at_visited_phi
  /\ translated

(* The walk is at the PHI node m2 of the header of loop, whose inputs
   are the store m1 of the preheader and the store m3 of the latch; the
   reference has not been translated, the walker does not answer at the
   PHI node, the latch store does not clobber the reference, and K alias
   queries are left. *)
at_loop_header(k) ==
  /\ ssa = loop
  /\ walk_pc = "walk" /\ vuse = "m2"
  /\ ~translated
  /\ walker("m2") = NULL
  /\ ~stmt_may_clobber_ref_p_1("m3")
  /\ limit = k

(* The walk is at the store of the preheader, where the walker is called
   next, and K alias queries are left. *)
at_preheader_store(k) ==
  /\ ssa = loop
  /\ walk_pc = "walk" /\ vuse = "m1"
  /\ limit = k

(* C25: from the header PHI with a limit of two or more the walk reaches
   the store of the preheader, and the one alias query for the store of
   the latch is all it has spent: the limit is not used up. *)
C25_LoopHeaderReachesPreheader ==
  \A k \in 2..MaxLimit : at_loop_header(k) ~> at_preheader_store(k - 1)

(* The walk has come through the header PHI to the store of the
   preheader, and queries are left. *)
C25_Witness ==
  /\ at_preheader_store(limit)
  /\ limit >= 1
  /\ bitmap_bit_p(visited, "m2")
  /\ ~translated
  /\ ~stmt_may_clobber_ref_p_1("m3")

(* C28: at every point of the walk, and so on return, LIMIT is what it
   was at the call less the alias queries made, and it is not below
   zero: no query is made at zero. *)
C28_LimitCountsQueries ==
  /\ limit = budget - queries
  /\ limit >= 0
  /\ walk_pc = "done" => queries <= budget

(* The walk has returned after two alias queries or more, one of them
   made by maybe_skip_until, with queries left. *)
C28_Witness ==
  /\ walk_pc = "done"
  /\ queries >= 2
  /\ looked >= 1
  /\ limit >= 1

(* The walk from a PHI argument has stepped over a statement into a
   block it has already skipped: the statement is not the default
   definition, an alias query is left, the statement does not clobber
   the reference or the callback disambiguates it, and its block is
   another than the one walked so far. *)
at_skipped_block ==
  /\ skip_goes_on
  /\ SSA_NAME_DEF_STMT(callee.vuse).code = "GIMPLE_ASSIGN"
  /\ ~limit_reached(limit)
  /\ stmt_may_clobber_ref_p_1(callee.vuse) => translate = NULL
  /\ gimple_bb(SSA_NAME_DEF_STMT(callee.vuse)) # callee.bb
  /\ bitmap_bit_p(visited, callee.vuse)

(* C30: once the reference has been translated, maybe_skip_until fails
   at a visited PHI node and at a block skipped before, and
   get_continuation_for_phi then finds no continuation. *)
C30_TranslatedFailsOnVisited ==
  [][/\ (translated /\ at_visited_phi) => (walk_pc' = "return" /\ ~ret'.ok)
     /\ (translated /\ at_skipped_block) => (walk_pc' = "return" /\ ~ret'.ok)
     /\ (translated /\ returned_to("get_continuation_for_phi") /\ ~ret.ok)
          => (walk_pc' = "return" /\ ret'.name = NULL)]_vars

(* After the translation at m5 of three_way, the walk from the second
   argument of the PHI node has come to the block of m2, skipped in the
   walk from the first argument, and the resolution has failed: four
   queries were made and no other statement clobbers the reference. *)
C30_Witness ==
  /\ ssa = three_way /\ clobber = {"m5"}
  /\ translated
  /\ queries = 4
  /\ returned_to("get_continuation_for_phi") /\ ~ret.ok

(* C16: during one walk_aliased_vdefs call no virtual definition is
   counted more than once and none is offered to the walker more than
   once, whether the caller passed a bitmap or not. *)
C16_VisitedAtMostOnce == \A n \in DOMAIN walked : walked[n] <= 1 /\ offered[n] <= 1

(* The same when the caller passed a bitmap it had allocated. *)
C16_VisitedAtMostOnceWithBitmap == vdef_supplied = "allocated" => C16_VisitedAtMostOnce

(* The walker has returned true: it does so at one definition. *)
walker_returned_true == vdef_walker # NULL /\ offered[vdef_walker] >= 1

(* The walk is inside the loop over the arguments of a PHI node. *)
in_phi_fork == \E i \in DOMAIN vdef_frames : vdef_frames[i].at = "phi"

(* C26 as stated: once the walker has returned true it is not called
   again. *)
C26_WalkStopped ==
  [][walker_returned_true => offered' = offered]_vars

(* C26: once the walker has returned true it is called again only in the
   walks of the further arguments of a PHI node the walk has forked at. *)
C26_ForkStopped ==
  [][(walker_returned_true /\ offered' # offered) => in_phi_fork]_vars

(* The walker returned true at the first store of the diamond, and was
   called on the store of the other branch after that. *)
C26_Witness ==
  /\ ssa = diamond /\ vdef_walker = "m2"
  /\ offered["m2"] = 1 /\ offered["m3"] = 1
  /\ in_phi_fork

(* The number of times a statement was walked, over the names in S. *)
RECURSIVE statements_walked(_)
statements_walked(S) ==
  IF S = {} THEN 0
  ELSE LET n == CHOOSE n \in S : TRUE
       IN  walked[n] + statements_walked(S \ {n})

(* C27: walk_aliased_vdefs returns -1 when, and only when, the limit is
   not zero and as many statements as the limit have been walked, the
   last of them being where the walk was aborted; else it returns the
   number of statements walked. *)
C27_CountOrAbortAtLimit ==
  vdef_pc = "done" =>
    /\ vdef_ret = -1 <=> (vdef_limit # 0 /\ statements_walked(DOMAIN walked) = vdef_limit)
    /\ vdef_ret # -1 => vdef_ret = statements_walked(DOMAIN walked)
    /\ vdef_ret = -1 => vdef_frames = <<>>

(* A walk aborted at its limit, or a walk without a limit that walked
   three statements or more. *)
C27_Witness ==
  /\ vdef_pc = "done"
  /\ \/ vdef_ret = -1 /\ vdef_limit = MaxLimit
     \/ vdef_limit = 0 /\ vdef_ret >= 3

(* ------------------------------------------------------------------ *)
(* Properties of the value-range lattice.                              *)
(* ------------------------------------------------------------------ *)

(* C3: a value inside both operands of intersect is inside the result,
   whenever the result is not undefined. *)
C3_IntersectSound ==
  op = "intersect" =>
    \A v \in Constants(type) :
      (value_inside_range(prev, v) = 1 /\ this.kind # "VR_UNDEFINED"
       /\ value_inside_range(other, v) = 1)
        => value_inside_range(this, v) = 1

(* An anti-range met with a range that overlaps its hole: the result is
   the part of the range above the hole and holds a common value. *)
C3_Witness ==
  /\ op = "intersect"
  /\ prev.kind = "VR_ANTI_RANGE" /\ other.kind = "VR_RANGE" /\ this.kind = "VR_RANGE"
  /\ this # other
  /\ \E v \in Constants(type) :
       value_inside_range(prev, v) = 1 /\ value_inside_range(other, v) = 1

(* C4: a value inside either operand of union_ is inside the result. *)
C4_UnionSound ==
  op = "union_" =>
    \A v \in Constants(type) :
      (value_inside_range(prev, v) = 1 \/ value_inside_range(other, v) = 1)
        => value_inside_range(this, v) = 1

(* union_ranges gave up on two anti-ranges with disjoint holes and
   union_helper fell back to varying. *)
C4_Witness ==
  /\ op = "union_"
  /\ prev.kind = "VR_ANTI_RANGE" /\ other.kind = "VR_ANTI_RANGE"
  /\ union_ranges(prev, other).kind = "VR_VARYING"
  /\ this.kind = "VR_VARYING"

(* C21: intersect gives a range of the same kind with its operands in
   either order, and so does union_, whatever bounds each order
   chooses. *)
C21_KindCommutes ==
  /\ op = "intersect" => this.kind = intersect_helper(other, prev).kind
  /\ op = "union_" => this.kind = union_helper(other, prev).kind

(* An intersection whose bounds depend on the order of the operands. *)
C21_Witness ==
  /\ op = "intersect"
  /\ this.kind \in {"VR_RANGE", "VR_ANTI_RANGE"}
  /\ ~equal_p(this, intersect_helper(other, prev))

(* The values of INTEGER_CSTs of type T that lie inside VR. *)
Values(vr, t) ==
  {v \in wi_min_value(t.precision, t.unsignedp) .. wi_max_value(t.precision, t.unsignedp) :
     value_inside_range(vr, wide_int_to_tree(t, v)) = 1}

(* S has no hole between two of its values, and S is the values of a
   range or of an anti-range of type T (or is empty, or all of them). *)
interval_p(S, t) ==
  \A a \in S, b \in S :
    \A c \in wi_min_value(t.precision, t.unsignedp) .. wi_max_value(t.precision, t.unsignedp) :
      (a < c /\ c < b) => c \in S

expressible(S, t) ==
  \/ interval_p(S, t)
  \/ interval_p((wi_min_value(t.precision, t.unsignedp) .. wi_max_value(t.precision, t.unsignedp)) \ S, t)

(* intersect was applied to two ranges whose common values are neither
   those of a range nor those of an anti-range. *)
inexpressible_intersection ==
  /\ op = "intersect"
  /\ ~expressible(Values(prev, type) \cap Values(other, type), type)

(* C22 as stated: an inexpressible intersection is one of the operands,
   and that operand has no more values than the other operand. *)
C22_ReturnsMorePreciseOperand ==
  inexpressible_intersection =>
    /\ this = prev \/ this = other
    /\ Cardinality(Values(this, type)) <= Cardinality(Values(prev, type))
    /\ Cardinality(Values(this, type)) <= Cardinality(Values(other, type))

(* C22: an inexpressible intersection is one of the two operands, and it
   holds every value the operands have in common. *)
C22_ReturnsAnOperand ==
  inexpressible_intersection =>
    /\ this = prev \/ this = other
    /\ Values(prev, type) \cap Values(other, type) \subseteq Values(this, type)

(* A range around the hole of an anti-range: the range is returned though
   the anti-range has fewer values. *)
C22_Witness ==
  /\ inexpressible_intersection
  /\ prev.kind = "VR_RANGE" /\ other.kind = "VR_ANTI_RANGE"
  /\ this = prev
  /\ Cardinality(Values(other, type)) < Cardinality(Values(this, type))

(* C9: set applied to the kind and bounds of a range that set produced
   gives that range again. *)
C9_SetIdempotent ==
  op = "set_again" => (equal_p(this, prev) /\ this = prev)

(* The first set was handed a range with reversed bounds and stored the
   anti-range between them. *)
C9_Witness ==
  /\ op = "set_again"
  /\ req.kind = "VR_RANGE" /\ tree_int_cst_lt(req.max, req.min)
  /\ prev.kind = "VR_ANTI_RANGE"

(* C10 as stated: a request for an anti-range over the whole domain
   yields undefined. *)
C10_EmptyAntiRangeUndefined ==
  (op = "set" /\ req.kind = "VR_ANTI_RANGE"
   /\ tree_int_cst_compare(req.min, vrp_val_min(type, TRUE)) <= 0
   /\ tree_int_cst_compare(req.max, vrp_val_max(type, TRUE)) >= 0)
    => this.kind = "VR_UNDEFINED"

(* C10: no stored anti-range excludes the whole domain, and a request to
   set for an anti-range over the whole domain yields varying. *)
C10_EmptyAntiRangeVarying ==
  /\ this.kind = "VR_ANTI_RANGE"
       => ~(tree_int_cst_compare(this.min, vrp_val_min(type, TRUE)) <= 0
            /\ tree_int_cst_compare(this.max, vrp_val_max(type, TRUE)) >= 0)
  /\ check(this)
  /\ (op = "set" /\ req.kind = "VR_ANTI_RANGE"
      /\ tree_int_cst_compare(req.min, vrp_val_min(type, TRUE)) <= 0
      /\ tree_int_cst_compare(req.max, vrp_val_max(type, TRUE)) >= 0)
       => this.kind = "VR_VARYING"

(* set was asked for ~[min, max] of a type of more than one bit. *)
C10_Witness ==
  /\ op = "set" /\ req.kind = "VR_ANTI_RANGE"
  /\ vrp_val_is_min(req.min, TRUE) /\ vrp_val_is_max(req.max, TRUE)
  /\ type.precision > 1
  /\ this.kind = "VR_VARYING"

(* ------------------------------------------------------------------ *)
(* Properties of range arithmetic.                                     *)
(* ------------------------------------------------------------------ *)

(* x + y or x - y as the type computes it: the exact result when the
   type holds it, else wrapped when overflow wraps and saturated to the
   type's extreme when it does not. *)
Concrete(c, t, x, y) ==
  LET exact == IF c = "PLUS_EXPR" THEN x + y ELSE x - y
      lo == wi_min_value(t.precision, t.unsignedp)
      hi == wi_max_value(t.precision, t.unsignedp)
  IN  IF t.overflow_wraps THEN wide_int_to_tree(t, exact).val
      ELSE IF exact > hi THEN hi
      ELSE IF exact < lo THEN lo
      ELSE exact

(* C5: for x in the first operand's range and y in the second's, x + y
   lies in the range computed for PLUS_EXPR and x - y in the range
   computed for MINUS_EXPR, in wrapping and in saturating types. *)
C5_PlusMinusSound ==
  arith_pc = "done" =>
    {Concrete(expr_code, expr_type, x, y) :
       x \in Values(opnd0, expr_type), y \in Values(opnd1, expr_type)}
      \subseteq Values(expr_vr, expr_type)

(* A saturating signed type: an anti-range plus a range whose sums
   overflow for some operands; the result's upper bound is saturated. *)
C5_Witness ==
  /\ arith_pc = "done" /\ expr_code = "PLUS_EXPR"
  /\ ~expr_type.overflow_wraps /\ expr_type.precision > 1
  /\ opnd0.kind = "VR_ANTI_RANGE" /\ opnd1.kind = "VR_RANGE"
  /\ expr_vr.kind = "VR_RANGE" /\ expr_vr.max.val = expr_type.max_value
  /\ \E x \in Values(opnd0, expr_type), y \in Values(opnd1, expr_type) :
       x + y > expr_type.max_value

(* The range below the hole of an anti-range with constant bounds, and
   the range above it. *)
below_hole(ar) ==
  set("VR_RANGE", vrp_val_min(TREE_TYPE(ar.min), FALSE),
      wide_int_to_tree(TREE_TYPE(ar.min), ar.min.val - 1))

above_hole(ar) ==
  set("VR_RANGE", wide_int_to_tree(TREE_TYPE(ar.min), ar.max.val + 1),
      vrp_val_max(TREE_TYPE(ar.min), FALSE))

(* The sum or difference of two anti-ranges has been computed. *)
both_anti_ranges ==
  /\ arith_pc = "done"
  /\ opnd0.kind = "VR_ANTI_RANGE" /\ opnd1.kind = "VR_ANTI_RANGE"

(* C23 as stated: the sum or difference of two anti-ranges is varying. *)
C23_AntiRangesVarying ==
  both_anti_ranges => expr_vr.kind = "VR_VARYING"

(* C23: the sum or difference of two anti-ranges with constant bounds is
   the union_ of the results for the ranges below and above the hole of
   the first operand, each the union_ of the results for the ranges
   below and above the hole of the second. *)
C23_AntiRangesUnionOfParts ==
  both_anti_ranges =>
    expr_vr =
      union_helper(
        union_helper(
          extract_range_from_plus_minus_expr(expr_code, expr_type, below_hole(opnd0), below_hole(opnd1)),
          extract_range_from_plus_minus_expr(expr_code, expr_type, below_hole(opnd0), above_hole(opnd1))),
        union_helper(
          extract_range_from_plus_minus_expr(expr_code, expr_type, above_hole(opnd0), below_hole(opnd1)),
          extract_range_from_plus_minus_expr(expr_code, expr_type, above_hole(opnd0), above_hole(opnd1))))

(* Two anti-ranges whose sum or difference is an anti-range or a range. *)
C23_Witness ==
  /\ both_anti_ranges
  /\ expr_vr.kind \in {"VR_RANGE", "VR_ANTI_RANGE"}

(* ------------------------------------------------------------------ *)
(* Properties of the range of a pointer addition.                      *)
(* ------------------------------------------------------------------ *)

(* No value of VR is zero; VR is the range [0, 0] of type T. *)
excludes_zero(vr, t) == 0 \notin Values(vr, t)

only_zero(vr, t) == vr = set("VR_RANGE", wide_int_to_tree(t, 0), wide_int_to_tree(t, 0))

(* The offset is a range of constants whose upper bound has its top bit
   clear. *)
offset_sign_bit_clear ==
  /\ pplus_vr1.kind = "VR_RANGE"
  /\ pplus_vr1.max.val < 2^(sizetype.precision - 1)

(* C24 as stated: nonzero when neither operand includes zero and
   overflow is undefined or the offset's sign bit is clear; zero only
   when both operands are zero; varying in every other case. *)
C24_NonzeroWhenNeitherIncludesZero ==
  pplus_pc = "done" =>
    LET claimed == /\ excludes_zero(pplus_vr0, pplus_type)
                   /\ excludes_zero(pplus_vr1, sizetype)
                   /\ (~pplus_type.overflow_wraps \/ offset_sign_bit_clear)
    IN  /\ claimed => pplus_vr = set_nonzero(pplus_type)
        /\ only_zero(pplus_vr, pplus_type)
             => only_zero(pplus_vr0, pplus_type) /\ only_zero(pplus_vr1, sizetype)
        /\ (~claimed /\ ~only_zero(pplus_vr, pplus_type)) => pplus_vr.kind = "VR_VARYING"

(* C24: nonzero when one operand at least excludes zero, overflow does not
   wrap, and null pointer checks may be deleted or the offset's sign bit
   is clear; else zero when both operands are zero; else varying. *)
C24_NonzeroWhenEitherExcludesZero ==
  pplus_pc = "done" =>
    pplus_vr =
      IF /\ excludes_zero(pplus_vr0, pplus_type) \/ excludes_zero(pplus_vr1, sizetype)
         /\ ~pplus_type.overflow_wraps
         /\ flag_delete_null_pointer_checks \/ offset_sign_bit_clear
      THEN set_nonzero(pplus_type)
      ELSE IF only_zero(pplus_vr0, pplus_type) /\ only_zero(pplus_vr1, sizetype)
      THEN set_zero(pplus_type)
      ELSE set_varying(pplus_type)

(* A pointer that is not null plus an offset that may be zero: the sum is
   not null. *)
C24_Witness ==
  /\ pplus_pc = "done"
  /\ excludes_zero(pplus_vr0, pplus_type) /\ pplus_vr0.kind # "VR_UNDEFINED"
  /\ ~excludes_zero(pplus_vr1, sizetype)
  /\ pplus_vr = set_nonzero(pplus_type)

(* ------------------------------------------------------------------ *)
(* Properties of the propagation of value ranges.                      *)
(* ------------------------------------------------------------------ *)

(* The place of a range in the lattice: undefined, a range or an
   anti-range, varying. *)
lattice_level(vr) ==
  IF vr.kind = "VR_UNDEFINED" THEN 0
  ELSE IF vr.kind = "VR_VARYING" THEN 2
  ELSE 1

(* C8: run on a function with any number of back edges, the propagation
   ends, and the range recorded for a name moves only from undefined,
   through a range or an anti-range, toward varying, never back. *)
C8_SolverTerminatesMonotone ==
  /\ <>(solve_pc = "done")
  /\ [][\A n \in DOMAIN vr_value :
          lattice_level(vr_value[n]) <= lattice_level(vr_value'[n])]_vars

(* Two nested loops: the propagation has ended, and the range of the
   inner counter was undefined, then a range, then another range, then
   varying. *)
C8_Witness ==
  /\ solve_pc = "done"
  /\ Cardinality(cfun.dfs_back) = 2
  /\ {<<"r_3", "VR_UNDEFINED", "VR_RANGE">>, <<"r_3", "VR_RANGE", "VR_RANGE">>,
      <<"r_3", "VR_RANGE", "VR_VARYING">>} \subseteq moves

(* ------------------------------------------------------------------ *)
(* Properties of the range assertions.                                 *)
(* ------------------------------------------------------------------ *)

same_fact(a, b) == a.comp_code = b.comp_code /\ a.val = b.val /\ a.expr = b.expr

(* C17: after process_assert_insertions no two of the assertions
   inserted for the name on one edge have the same comparison code,
   value and expression, however many duplicates were registered for the
   edge and in whatever order. *)
C17_OneAssertPerEdge ==
  \A i, j \in DOMAIN inserted :
     (i # j /\ inserted[i][1].e # no_edge /\ inserted[i][1].e = inserted[j][1].e)
       => ~same_fact(inserted[i][1], inserted[j][1])

(* A fact registered twice on one edge has been inserted on that edge. *)
C17_Witness ==
  /\ assert_pc = "inserted"
  /\ \E i, j \in DOMAIN asserts_for :
       /\ i # j /\ asserts_for[i].e # no_edge /\ asserts_for[i].e = asserts_for[j].e
       /\ same_fact(asserts_for[i], asserts_for[j])
       /\ \E k \in DOMAIN inserted :
            inserted[k][1].e = asserts_for[i].e /\ same_fact(inserted[k][1], asserts_for[i])

registered_on(e, fact) ==
  \E i \in DOMAIN asserts_for : asserts_for[i].e = e /\ same_fact(asserts_for[i], fact)

(* The assertions at the entry of block B: the ones before its first
   other statement. *)
entry_asserts(b) ==
  {i \in DOMAIN fun.stmts[b] : \A k \in 1 .. i : is_assert_expr(fun.stmts[b][k])}

assert_of(stmt, fact) ==
  is_assert_expr(stmt) /\ stmt.comp_code = fact.comp_code /\ stmt.val = fact.val

(* C18: when one fact is registered on every incoming edge of a block,
   process_assert_insertions leaves exactly one assertion of it at the
   entry of the block and none on the incoming edges. *)
C18_CommonAssertAtEntry ==
  assert_pc = "inserted" =>
    \A fact \in Facts, b \in DOMAIN two_branches.stmts :
       (/\ preds(two_branches, b) # {}
        /\ \A e \in preds(two_branches, b) : registered_on(e, fact))
       => /\ Cardinality({i \in entry_asserts(b) : assert_of(fun.stmts[b][i], fact)}) = 1
          /\ \A e \in preds(two_branches, b) : \A nb \in split_block(fun, e) :
                \A i \in DOMAIN fun.stmts[nb] : ~assert_of(fun.stmts[nb][i], fact)

(* C19: no two loci registered for the name carry the same fact with the
   block of one dominating the block of the other. *)
C19_NoDominatedLocus ==
  \A i, j \in DOMAIN asserts_for :
     (i # j /\ same_fact(asserts_for[i], asserts_for[j]))
       => ~block_dominated_by_p(asserts_for[i].bb, asserts_for[j].bb)

(* After remove_range_assertions no assertion remains and the blocks
   the function had hold the statements they had, with the operands they
   had. *)
asserts_removed ==
  /\ assert_exprs(fun) = {}
  /\ \A b \in DOMAIN two_branches.stmts : fun.stmts[b] = two_branches.stmts[b]

(* C20: after the assertions have been inserted and removed no
   assertion remains, every use is a use of the underlying name again,
   and the graph has the shape it had before the insertion. *)
C20_GraphRestored ==
  assert_pc = "removed" =>
    /\ asserts_removed
    /\ DOMAIN fun.stmts = DOMAIN two_branches.stmts
    /\ fun.edges = two_branches.edges

(* C20, amended: the statements are restored; the blocks made by
   splitting the critical edges that carried an assertion remain, each
   empty and on the edge it was made for. *)
C20_StatementsRestored ==
  assert_pc = "removed" =>
    /\ asserts_removed
    /\ \A b \in DOMAIN fun.stmts \ DOMAIN two_branches.stmts :
         /\ fun.stmts[b] = <<>>
         /\ \E e \in two_branches.edges :
              /\ e \notin fun.edges
              /\ preds(fun, b) = {<<e[1], b>>} /\ succs(fun, b) = {<<b, e[2]>>}
    /\ \A e \in two_branches.edges : e \in fun.edges \/ split_block(fun, e) # {}
    /\ \A e \in fun.edges :
         e \in two_branches.edges \/ e[1] \notin DOMAIN two_branches.stmts
                                  \/ e[2] \notin DOMAIN two_branches.stmts

(* Assertions were inserted, one of them on a critical edge, and have
   been removed. *)
C20_Witness ==
  /\ assert_pc = "removed"
  /\ fun.num_ssa_names > two_branches.num_ssa_names
  /\ fun.edges # two_branches.edges

====
